---- MODULE Spec2Model ----
(***************************************************************************)
(* A model of the evolutionary VRP solver: the generational loop           *)
(* (Iterative::run), the MaxGeneration termination criterion, the          *)
(* insertion evaluator (evaluators.rs) and the configuration builders.     *)
(* Each part has its own specification over its own group of variables;    *)
(* the variables of the other parts stay at their idle values.             *)
(***************************************************************************)
EXTENDS Integers, Sequences, FiniteSets, TLC

VARIABLES
    \* ---- Iterative::run (rosomaxa/src/evolution/strategies/iterative.rs)
    pc,                  \* position of the run inside the loop
    generation,          \* heuristic_ctx statistics.generation
    limit,               \* MaxGeneration.limit of the termination
    quota,               \* environment.quota: None or Some(limit_in_secs)
    clock,               \* seconds elapsed since the TimeQuota was created
    phase,               \* population.selection_phase()
    is_terminated,       \* local of the loop (line 50)
    is_quota_reached,    \* local of the loop (line 51)
    diverse_offspring,   \* local of the loop (line 61)
    search_offspring,    \* local of the loop (line 67)
    on_generation_args,  \* arguments of the last on_generation call
    calls,               \* calls made by the current generation and in total
    \* ---- MaxGeneration polled on its own (max_generation.rs)
    term,                \* generation, limit and the last two polled values
    \* ---- evaluate_job_insertion (evaluators.rs)
    epc,                 \* position of the evaluation
    job,                 \* the Job: a Single's places or a Multi's permutations
    position,            \* the InsertionPosition
    routes,              \* routes the selector yields: how many, and how many so far
    route,               \* the route under evaluation: legs and route_costs
    acc,                 \* the InsertionResult folded over the routes
    single_ctx,          \* the SingleContext folded over the candidates
    cursor,              \* the next (leg, place, time window) to analyze
    multi,               \* evaluate_multi: its folds and the ShadowContext
    seen,                \* legal candidates analyzed in the route under evaluation
    best,                \* cheapest legal candidates of the routes yielded so far
    encountered,         \* the scan of the route: latest violation code, any legal
    \* ---- the builders (rosomaxa config.rs, vrp-core builder.rs)
    bpc,                 \* position of the configuration: fluent calls, then build
    builder,             \* which builder, and its fields
    built,               \* what build() returned
    \* ---- get_removal_chunk_size (vrp-core ruin/mod.rs)
    chunk,               \* the jobs, the JobRemovalLimit, the draw and the result
    \* ---- CompositeRuin::run (vrp-core ruin/mod.rs)
    rpc,                 \* position of the call
    composite,           \* the CompositeRuin: ruins and weights
    insertion_ctx,       \* the solution: its routes and the ruins run on it
    ruining,             \* the group picked, the position in it, the draws
    \* ---- select_seed_job (vrp-core ruin/mod.rs)
    spc,                 \* position of the selection
    seeding,             \* the routes, the draws, the cursors and the result
    \* ---- relations to and from the HRE format (vrp-cli hre.rs)
    hre,                 \* the relation, its HRE form and what is read back
    \* ---- tour colours of the geojson serializer (geo_serializer.rs)
    geo                  \* the tours of the solution and the colours assigned

runVars == <<pc, generation, limit, quota, clock, phase, is_terminated,
             is_quota_reached, diverse_offspring, search_offspring,
             on_generation_args, calls>>
termVars == <<term>>
evalVars == <<epc, job, position, routes, route, acc, single_ctx, cursor, multi,
             seen, best, encountered>>
buildVars == <<bpc, builder, built>>
chunkVars == <<chunk>>
ruinVars == <<rpc, composite, insertion_ctx, ruining>>
seedVars == <<spc, seeding>>
hreVars == <<hre>>
geoVars == <<geo>>
vars == <<runVars, termVars, evalVars, buildVars, chunkVars, ruinVars,
          seedVars, hreVars, geoVars>>

\* what the steps of one part leave alone
notRun == <<termVars, evalVars, buildVars, chunkVars, ruinVars,
            seedVars, hreVars, geoVars>>
notTerm == <<runVars, evalVars, buildVars, chunkVars, ruinVars,
            seedVars, hreVars, geoVars>>
notEval == <<runVars, termVars, buildVars, chunkVars, ruinVars,
            seedVars, hreVars, geoVars>>
notBuild == <<runVars, termVars, evalVars, chunkVars, ruinVars,
            seedVars, hreVars, geoVars>>
notChunk == <<runVars, termVars, evalVars, buildVars, ruinVars,
            seedVars, hreVars, geoVars>>
notRuin == <<runVars, termVars, evalVars, buildVars, chunkVars,
            seedVars, hreVars, geoVars>>
notSeed == <<runVars, termVars, evalVars, buildVars, chunkVars, ruinVars,
             hreVars, geoVars>>
notHre == <<runVars, termVars, evalVars, buildVars, chunkVars, ruinVars,
            seedVars, geoVars>>
notGeo == <<runVars, termVars, evalVars, buildVars, chunkVars, ruinVars,
            seedVars, hreVars>>

----------------------------------------------------------------------------
\* Option values.
None == [some |-> FALSE]
Some(x) == [some |-> TRUE, v |-> x]

\* Bounds of the model.
MaxLimit == 3
MaxClock == 3
MaxOffspring == 2
MaxPolledGeneration == 30
MaxRoutes == 2
MaxLegs == 2
MaxCost == 1
MaxCode == 2
MaxArg == 2
MaxJobs == 3
UsizeBits == 6
I32Bits == 4
MaxRuins == 2
DrawSteps == 4
MaxSolutions == 2
MaxSeed == 1
MaxSeedRoutes == 3
MaxActivities == 2
MaxShiftIndex == 1
MaxTours == 17
MaxStops == 2
MaxBreaks == 2
MaxTimes == 2

\* usize::MAX, for a usize of UsizeBits bits
UsizeMax == 2^UsizeBits - 1

\* a + b in usize where the build does not check for overflow
usize_wrapping_add(a, b) == (a + b) % 2^UsizeBits

----------------------------------------------------------------------------
(* f64 values as far as MaxGeneration::estimate needs them: a quotient of  *)
(* two usize values converted to f64 (exact below 2^53, which covers every *)
(* value of the model), with IEEE-754 division by zero.                    *)
F64Fin(n, d) == [k |-> "fin", n |-> n, d |-> d]
F64Inf == [k |-> "inf", n |-> 1, d |-> 0]
F64NaN == [k |-> "nan", n |-> 0, d |-> 0]
F64One == F64Fin(1, 1)

\* a as f64 / b as f64
F64Div(a, b) ==
    IF b = 0 THEN (IF a = 0 THEN F64NaN ELSE F64Inf) ELSE F64Fin(a, b)

\* x <= y for finite values
F64Le(x, y) == x.n * y.d <= y.n * x.d

F64Min1NaN(x) ==
    CASE x.k = "nan" -> x
      [] x.k = "inf" -> F64One
      [] OTHER -> IF F64Le(x, F64One) THEN x ELSE F64One

\* f64::min(x, 1.): a NaN operand yields the other operand
F64Min1(x) ==
    CASE x.k = "nan" -> F64One
      [] x.k = "inf" -> F64One
      [] OTHER -> IF F64Le(x, F64One) THEN x ELSE F64One

is_termination_strict(gen, lim) == gen > lim

\* MaxGeneration::is_termination
is_termination(gen, lim) == gen >= lim

\* MaxGeneration::estimate
estimate(gen, lim) == F64Min1(F64Div(gen, lim))

\* TimeQuota::is_reached
is_reached(elapsed, limit_in_secs) == elapsed > limit_in_secs

\* environment().quota.as_ref().map_or(false, |q| q.is_reached())
quota_reached(q, elapsed) == IF q.some THEN is_reached(elapsed, q.v) ELSE FALSE

\* the statistics update of on_generation: one more generation
on_generation(gen) == gen + 1

Phases == {"Initial", "Exploration", "Exploitation"}

\* a Vec of n individuals produced by the operator op
Individuals(op, n) == [i \in 1..n |-> op]

NoCalls == [search |-> 0, diversify |-> 0]

----------------------------------------------------------------------------
\* Idle values of the groups.
RunIdle ==
    /\ pc = "idle" /\ generation = 0 /\ limit = 0 /\ quota = None /\ clock = 0
    /\ phase = "Initial" /\ is_terminated = FALSE /\ is_quota_reached = FALSE
    /\ diverse_offspring = <<>> /\ search_offspring = <<>>
    /\ on_generation_args = None
    /\ calls = [gen |-> NoCalls, phase |-> "Initial", total |-> 0]
TermIdle == term = None
EvalIdle ==
    /\ epc = "idle" /\ job = None /\ position = None /\ routes = None
    /\ route = None /\ acc = None /\ single_ctx = None /\ cursor = None
    /\ multi = None
    /\ seen = {} /\ best = None /\ encountered = None
BuildIdle == bpc = "idle" /\ builder = None /\ built = None
ChunkIdle == chunk = None
RuinIdle ==
    rpc = "idle" /\ composite = None /\ insertion_ctx = None /\ ruining = None
SeedIdle == spc = "idle" /\ seeding = None
HreIdle == hre = None
GeoIdle == geo = None
\* the parts added after CompositeRuin::run are idle
LaterIdle == SeedIdle /\ HreIdle /\ GeoIdle

----------------------------------------------------------------------------
(* Iterative::run.                                                         *)

RunInit ==
    /\ pc = "check"
    /\ generation = 0
    /\ limit \in 0..MaxLimit
    /\ quota \in {None} \cup {Some(s) : s \in 0..(MaxClock - 1)}
    /\ clock = 0
    /\ phase \in Phases
    /\ is_terminated = FALSE
    /\ is_quota_reached = FALSE
    /\ diverse_offspring = <<>>
    /\ search_offspring = <<>>
    /\ on_generation_args = None
    /\ calls = [gen |-> NoCalls, phase |-> phase, total |-> 0]
    /\ TermIdle
    /\ EvalIdle
    /\ BuildIdle
    /\ ChunkIdle
    /\ RuinIdle
    /\ LaterIdle

\* Wall-clock time passes while the run is going on.
Tick ==
    /\ pc \notin {"done", "idle"}
    /\ clock < MaxClock
    /\ clock' = clock + 1
    /\ UNCHANGED <<pc, generation, limit, quota, phase, is_terminated,
                   is_quota_reached, diverse_offspring, search_offspring,
                   on_generation_args, calls, notRun>>

LoopCheckNoQuota ==
    /\ pc = "check"
    /\ is_terminated' = is_termination(generation, limit)
    /\ is_quota_reached' = quota_reached(quota, clock)
    /\ pc' = IF is_terminated' THEN "done" ELSE "select"
    /\ calls' = IF pc' = "select" THEN [calls EXCEPT !.gen = NoCalls] ELSE calls
    /\ UNCHANGED <<generation, limit, quota, clock, phase, diverse_offspring,
                   search_offspring, on_generation_args, notRun>>

\* lines 50-55: both checks, then break or go on
LoopCheck ==
    /\ pc = "check"
    /\ is_terminated' = is_termination(generation, limit)
    /\ is_quota_reached' = quota_reached(quota, clock)
    /\ pc' = IF is_terminated' \/ is_quota_reached' THEN "done" ELSE "select"
    /\ calls' = IF pc' = "select" THEN [calls EXCEPT !.gen = NoCalls] ELSE calls
    /\ UNCHANGED <<generation, limit, quota, clock, phase, diverse_offspring,
                   search_offspring, on_generation_args, notRun>>

\* lines 57-59: the timer is started and the parents are selected
SelectParents ==
    /\ pc = "select"
    /\ pc' = "diversify"
    /\ UNCHANGED <<generation, limit, quota, clock, phase, is_terminated,
                   is_quota_reached, diverse_offspring, search_offspring,
                   on_generation_args, calls, notRun>>

\* lines 61-62: no diversification in the exploitation phase
DiversifySkipped ==
    /\ pc = "diversify"
    /\ phase = "Exploitation"
    /\ diverse_offspring' = <<>>
    /\ calls' = [calls EXCEPT !.phase = phase]
    /\ pc' = "search"
    /\ UNCHANGED <<generation, limit, quota, clock, phase, is_terminated,
                   is_quota_reached, search_offspring, on_generation_args,
                   notRun>>

DiversifyAnyPhase ==
    /\ pc = "diversify"
    /\ \E n \in 0..MaxOffspring : diverse_offspring' = Individuals("diversify", n)
    /\ calls' = [calls EXCEPT !.phase = phase,
                              !.gen.diversify = calls.gen.diversify + 1]
    /\ pc' = "search"
    /\ UNCHANGED <<generation, limit, quota, clock, phase, is_terminated,
                   is_quota_reached, search_offspring, on_generation_args,
                   notRun>>

\* lines 63-65: heuristic.diversify
Diversify ==
    /\ pc = "diversify"
    /\ phase # "Exploitation"
    /\ \E n \in 0..MaxOffspring : diverse_offspring' = Individuals("diversify", n)
    /\ calls' = [calls EXCEPT !.phase = phase,
                              !.gen.diversify = calls.gen.diversify + 1]
    /\ pc' = "search"
    /\ UNCHANGED <<generation, limit, quota, clock, phase, is_terminated,
                   is_quota_reached, search_offspring, on_generation_args,
                   notRun>>

\* line 67: heuristic.search
Search ==
    /\ pc = "search"
    /\ \E n \in 0..MaxOffspring : search_offspring' = Individuals("search", n)
    /\ calls' = [calls EXCEPT !.gen.search = calls.gen.search + 1,
                              !.total = calls.total + 1]
    /\ pc' = "on_generation"
    /\ UNCHANGED <<generation, limit, quota, clock, phase, is_terminated,
                   is_quota_reached, diverse_offspring, on_generation_args,
                   notRun>>

\* lines 69-73: the offspring is chained, the estimate taken and the
\* generation handed to the context, whose population may change its phase
OnGeneration ==
    /\ pc = "on_generation"
    /\ on_generation_args' =
           Some([offspring |-> search_offspring \o diverse_offspring,
                 termination_estimate |-> estimate(generation, limit)])
    /\ generation' = on_generation(generation)
    /\ phase' \in Phases
    /\ pc' = "check"
    /\ UNCHANGED <<limit, quota, clock, is_terminated, is_quota_reached,
                   diverse_offspring, search_offspring, calls, notRun>>

RunStep ==
    \/ LoopCheck
    \/ SelectParents
    \/ DiversifySkipped
    \/ Diversify
    \/ Search
    \/ OnGeneration

RunNext == Tick \/ RunStep

RunSpec == RunInit /\ [][RunNext]_vars

\* the loop is sequential code: each of its steps is eventually taken
RunFairSpec == RunSpec /\ WF_vars(RunStep)

\* lines 63-65: heuristic.diversify panics instead of returning
DiversifyPanics ==
    /\ pc = "diversify"
    /\ phase # "Exploitation"
    /\ calls' = [calls EXCEPT !.phase = phase,
                              !.gen.diversify = calls.gen.diversify + 1]
    /\ pc' = "diversify_panicked"
    /\ UNCHANGED <<generation, limit, quota, clock, phase, is_terminated,
                   is_quota_reached, diverse_offspring, search_offspring,
                   on_generation_args, notRun>>

\* line 67: heuristic.search panics instead of returning
SearchPanics ==
    /\ pc = "search"
    /\ calls' = [calls EXCEPT !.gen.search = calls.gen.search + 1,
                              !.total = calls.total + 1]
    /\ pc' = "search_panicked"
    /\ UNCHANGED <<generation, limit, quota, clock, phase, is_terminated,
                   is_quota_reached, diverse_offspring, search_offspring,
                   on_generation_args, notRun>>

\* lines 49-74: nothing in the loop catches the unwinding, which leaves run
\* without the rest of the generation and without a result
PanicUnwinds ==
    /\ pc \in {"diversify_panicked", "search_panicked"}
    /\ pc' = "aborted"
    /\ UNCHANGED <<generation, limit, quota, clock, phase, is_terminated,
                   is_quota_reached, diverse_offspring, search_offspring,
                   on_generation_args, calls, notRun>>

RunPanicNext ==
    \/ RunNext
    \/ DiversifyPanics
    \/ SearchPanics
    \/ PanicUnwinds

\* the run with operators that may panic
RunPanicSpec == RunInit /\ [][RunPanicNext]_vars

----------------------------------------------------------------------------
(* MaxGeneration polled by a caller whose generation counter grows.        *)

Polled(gen, lim, prev) ==
    Some([generation |-> gen, limit |-> lim,
          is_termination |-> is_termination(gen, lim),
          estimate |-> estimate(gen, lim),
          previous |-> prev])

TermInit ==
    /\ RunIdle
    /\ EvalIdle
    /\ BuildIdle
    /\ ChunkIdle
    /\ RuinIdle
    /\ LaterIdle
    /\ \E lim \in 0..MaxLimit : term = Polled(0, lim, None)

\* the next generation is polled: is_termination and estimate
PollNext ==
    /\ term.some
    /\ term.v.generation < MaxPolledGeneration
    /\ term' = Polled(term.v.generation + 1, term.v.limit,
                      Some([is_termination |-> term.v.is_termination,
                            estimate |-> term.v.estimate]))
    /\ UNCHANGED notTerm

TermNext == PollNext

TermSpec == TermInit /\ [][TermNext]_vars

----------------------------------------------------------------------------
(* The insertion evaluator: evaluate_job_insertion folds                   *)
(* evaluate_job_insertion_in_route over the routes the selector yields.    *)
(* The routes and the answers of the constraint pipeline are inputs: each  *)
(* is drawn when the code asks for it. Tours have a start and an end, so a *)
(* tour with n job activities has n + 1 legs; soft costs are finite and    *)
(* not negative.                                                           *)

Costs == 0..MaxCost
Codes == 1..MaxCode
OptCosts == {None} \cup {Some(c) : c \in Costs}

\* single.places as the number of time windows of each place
SinglePlaces == {<<1>>, <<2>>, <<1, 1>>}

\* the places of a sub-task of a Multi: one place with one time window
ServicePlaces == <<1>>

\* multi.permutations() of the sub-tasks 1 (pickup) and 2 (delivery)
MultiPermutations == {<< <<1, 2>> >>, << <<1, 2>>, <<2, 1>> >>}

Jobs ==
    {[kind |-> "Single", places |-> p] : p \in SinglePlaces}
    \cup {[kind |-> "Multi", permutations |-> p] : p \in MultiPermutations}

Positions ==
    {[kind |-> "Any", idx |-> 0], [kind |-> "Last", idx |-> 0]}
    \cup {[kind |-> "Concrete", idx |-> i] : i \in (0..MaxLegs) \cup {UsizeMax}}

\* evaluate_hard_activity of a candidate and, when it finds no violation,
\* evaluate_soft_activity
Answers ==
    {[violation |-> None, costs |-> c] : c \in Costs}
    \cup {[violation |-> Some([code |-> k, stopped |-> st]), costs |-> 0] :
              k \in Codes, st \in BOOLEAN}

\* InsertionResult
Failure(code) == [kind |-> "Failure", code |-> code]
Success(cost, activities, route_ref) ==
    [kind |-> "Success", cost |-> cost, activities |-> activities,
     route |-> route_ref]

\* InsertionResult::make_failure: the failure without a code
make_failure == Failure(-1)

\* InsertionResult::choose_best_result: a success beats a failure, the right
\* success wins only with a strictly lower cost, the later failure code is kept
choose_best_result(left, right) ==
    CASE left.kind = "Success" /\ right.kind = "Failure" -> left
      [] left.kind = "Failure" /\ right.kind = "Success" -> right
      [] left.kind = "Success" /\ right.kind = "Success" ->
            IF right.cost < left.cost THEN right ELSE left
      [] OTHER -> IF right.code = -1 THEN left ELSE right

\* Result<T, T>
Ok(x) == [ok |-> TRUE, ctx |-> x]
Err(x) == [ok |-> FALSE, ctx |-> x]

\* SingleContext::new
SingleContext_new(cost, index) ==
    [violation |-> None, index |-> index, cost |-> cost, place |-> None]

SingleContext_fail_forgets(violation, other) ==
    LET ctx == [violation |-> Some(violation), index |-> other.index,
                cost |-> other.cost, place |-> None]
    IN  IF violation.stopped THEN Err(ctx) ELSE Ok(ctx)

SingleContext_fail_never_stops(violation, other) ==
    LET ctx == [violation |-> Some(violation), index |-> other.index,
                cost |-> other.cost, place |-> other.place]
    IN  Ok(ctx)

\* SingleContext::fail
SingleContext_fail(violation, other) ==
    LET ctx == [violation |-> Some(violation), index |-> other.index,
                cost |-> other.cost, place |-> other.place]
    IN  IF violation.stopped THEN Err(ctx) ELSE Ok(ctx)

\* SingleContext::success
SingleContext_success(index, cost, place) ==
    Ok([violation |-> None, index |-> index, cost |-> Some(cost),
        place |-> Some(place)])

\* SingleContext::skip
SingleContext_skip(other) == Ok(other)

\* SingleContext::is_success
SingleContext_is_success(ctx) == ctx.place.some

\* costs < cost.unwrap_or(f64::MAX), for finite costs below f64::MAX
less_than_cost(costs, cost) == IF cost.some THEN costs < cost.v ELSE TRUE

analyze_time_window_stale_index(in2, index, place, answer) ==
    IF answer.violation.some
    THEN SingleContext_fail(answer.violation.v, in2)
    ELSE IF less_than_cost(answer.costs, in2.cost)
         THEN SingleContext_success(in2.index, answer.costs, place)
         ELSE SingleContext_skip(in2)

analyze_time_window_not_strict(in2, index, place, answer) ==
    IF answer.violation.some
    THEN SingleContext_fail(answer.violation.v, in2)
    ELSE IF (in2.cost.some => answer.costs <= in2.cost.v)
         THEN SingleContext_success(index, answer.costs, place)
         ELSE SingleContext_skip(in2)

\* analyze_insertion_in_route_leg: the body of the fold over the time windows
\* of the places, for the candidate `place` of the leg `index`
analyze_time_window(in2, index, place, answer) ==
    IF answer.violation.some
    THEN SingleContext_fail(answer.violation.v, in2)
    ELSE IF less_than_cost(answer.costs, in2.cost)
         THEN SingleContext_success(index, answer.costs, place)
         ELSE SingleContext_skip(in2)

\* get_insertion_index
get_insertion_index(legs, pos) ==
    CASE pos.kind = "Any" -> None
      [] pos.kind = "Concrete" -> Some(pos.idx)
      [] OTHER -> Some((IF legs > 1 THEN legs ELSE 1) - 1)

Candidate(leg, place, time) == [leg |-> leg, place |-> place, time |-> time]

\* analyze_insertion_in_route: the first candidate of the scan, which takes
\* the leg insertion_idx, or the legs from init.index on
first_candidate(places, legs, insertion_idx, skip) ==
    LET leg == IF insertion_idx.some THEN insertion_idx.v ELSE skip
    IN  IF leg < legs /\ Len(places) > 0 THEN Some(Candidate(leg, 1, 1)) ELSE None

\* the candidate after cur: next time window, next place, next leg
next_candidate(places, legs, insertion_idx, cur) ==
    IF cur.time < places[cur.place]
    THEN Some(Candidate(cur.leg, cur.place, cur.time + 1))
    ELSE IF cur.place < Len(places)
    THEN Some(Candidate(cur.leg, cur.place + 1, 1))
    ELSE IF ~insertion_idx.some /\ cur.leg + 1 < legs
    THEN Some(Candidate(cur.leg + 1, 1, 1))
    ELSE None

\* (activity, index) of an InsertionResult: the activity of the sub-task
\* `service` (0 for a Single job) with its place, and its insert index
ActivityAt(service, place, index) ==
    [job |-> service, place |-> place, index |-> index]

\* evaluate_single, lines 115-121: the result for the route
evaluate_single_result(result, route_costs, route_ref) ==
    IF SingleContext_is_success(result)
    THEN Success(result.cost.v + route_costs,
                 <<ActivityAt(0, result.place.v, result.index)>>,
                 route_ref)
    ELSE Failure(IF result.violation.some THEN result.violation.v.code ELSE 0)

\* Tour of a route with the given number of legs: the start, the job
\* activities and the end, all marked 0; a sub-task of the Multi job under
\* evaluation is marked with its number
tour_of(legs) == [i \in 1..(legs + 1) |-> 0]

\* tour.legs().count()
legs_count(tour) == Len(tour) - 1

\* tour.activity_count(): the activities without start and end
activity_count(tour) == Len(tour) - 2

\* tour.insert_at(activity, index)
insert_at(tour, activity, index) ==
    [i \in 1..(Len(tour) + 1) |->
        IF i <= index THEN tour[i]
        ELSE IF i = index + 1 THEN activity ELSE tour[i - 1]]

\* tour.remove(job): without the activities of the Multi job
remove_job(tour) == SelectSeq(tour, LAMBDA a : a = 0)

\* MultiContext::new
MultiContext_new(cost, index) ==
    [violation |-> None, start_index |-> index, next_index |-> index,
     cost |-> cost, activities |-> None]

MultiContext_promote_not_strict(left, right) ==
    LET index == usize_wrapping_add(IF left.start_index > right.start_index
                                    THEN left.start_index
                                    ELSE right.start_index, 1)
        chosen ==
            CASE left.cost.some /\ right.cost.some ->
                    IF left.cost.v <= right.cost.v THEN left ELSE right
              [] left.cost.some /\ ~right.cost.some -> left
              [] ~left.cost.some /\ right.cost.some -> right
              [] OTHER -> IF left.violation.some THEN left ELSE right
        result == [violation |-> chosen.violation, start_index |-> index,
                   next_index |-> index, cost |-> chosen.cost,
                   activities |-> chosen.activities]
    IN  IF result.violation.some /\ result.violation.v.stopped
        THEN Err(result) ELSE Ok(result)

\* MultiContext::promote, line 326: max(start_index) + 1 does not fit usize
promote_overflows(left, right) ==
    left.start_index = UsizeMax \/ right.start_index = UsizeMax

\* MultiContext::promote; an overflow of line 326 wraps here, and panics in
\* PromoteOverflowPanics
MultiContext_promote(left, right) ==
    LET index == usize_wrapping_add(IF left.start_index > right.start_index
                                    THEN left.start_index
                                    ELSE right.start_index, 1)
        chosen ==
            CASE left.cost.some /\ right.cost.some ->
                    IF left.cost.v < right.cost.v THEN left ELSE right
              [] left.cost.some /\ ~right.cost.some -> left
              [] ~left.cost.some /\ right.cost.some -> right
              [] OTHER -> IF left.violation.some THEN left ELSE right
        result == [violation |-> chosen.violation, start_index |-> index,
                   next_index |-> index, cost |-> chosen.cost,
                   activities |-> chosen.activities]
    IN  IF result.violation.some /\ result.violation.v.stopped
        THEN Err(result) ELSE Ok(result)

MultiContext_fail_keeps(err_ctx, other_ctx) ==
    LET violation ==
            IF err_ctx.violation.some
            THEN [code |-> err_ctx.violation.v.code,
                  stopped |-> err_ctx.violation.v.stopped
                              /\ ~other_ctx.activities.some]
            ELSE [code |-> 0, stopped |-> FALSE]
    IN  Err([violation |-> None,
             start_index |-> other_ctx.start_index,
             next_index |-> other_ctx.start_index,
             cost |-> other_ctx.cost, activities |-> other_ctx.activities])

\* MultiContext::fail
MultiContext_fail(err_ctx, other_ctx) ==
    LET violation ==
            IF err_ctx.violation.some
            THEN [code |-> err_ctx.violation.v.code,
                  stopped |-> err_ctx.violation.v.stopped
                              /\ ~other_ctx.activities.some]
            ELSE [code |-> 0, stopped |-> FALSE]
    IN  Err([violation |-> Some(violation),
             start_index |-> other_ctx.start_index,
             next_index |-> other_ctx.start_index,
             cost |-> None, activities |-> None])

MultiContext_success_same_leg(cost, activities) ==
    Ok([violation |-> None,
        start_index |-> activities[1].index,
        next_index |-> activities[1].index,
        cost |-> Some(cost), activities |-> Some(activities)])

\* MultiContext::success
MultiContext_success(cost, activities) ==
    Ok([violation |-> None,
        start_index |-> activities[1].index,
        next_index |-> activities[Len(activities)].index + 1,
        cost |-> Some(cost), activities |-> Some(activities)])

\* MultiContext::next
MultiContext_next(self) ==
    [violation |-> None, start_index |-> self.start_index,
     next_index |-> self.start_index, cost |-> None, activities |-> None]

\* MultiContext::is_success
MultiContext_is_success(self) ==
    ~self.violation.some /\ self.cost.some /\ self.activities.some

\* MultiContext::is_failure
MultiContext_is_failure(self, index) ==
    (self.violation.some /\ self.violation.v.stopped) \/ self.start_index > index

\* ShadowContext::new: route and state are clones of the Arcs of the given
\* RouteContext, so the shadow shares them with it; `copies` counts the
\* deep copies made, `accepted` tells that accept_route_state has run since
\* the tour changed last
ShadowContext_new(tour) ==
    [is_mutated |-> FALSE, is_dirty |-> FALSE, tour |-> tour,
     shared |-> TRUE, copies |-> 0, accepted |-> TRUE]

\* RouteContext::deep_copy: a route and a state of its own
deep_copy(shadow) ==
    [shadow EXCEPT !.shared = FALSE, !.copies = shadow.copies + 1]

\* a structural change of the tour of the context
with_tour(shadow, tour) == [shadow EXCEPT !.tour = tour, !.accepted = FALSE]

\* ConstraintPipeline::accept_route_state
accept_route_state(shadow) == [shadow EXCEPT !.accepted = TRUE]

ShadowContext_insert_in_place(shadow, activity, index) ==
    LET own == [shadow EXCEPT !.is_mutated = TRUE]
        changed == with_tour(own, insert_at(own.tour, activity, index + 1))
    IN  [accept_route_state(changed) EXCEPT !.is_dirty = TRUE]

\* ShadowContext::insert
ShadowContext_insert(shadow, activity, index) ==
    LET own == IF ~shadow.is_mutated
               THEN [deep_copy(shadow) EXCEPT !.is_mutated = TRUE]
               ELSE shadow
        changed == with_tour(own, insert_at(own.tour, activity, index + 1))
    IN  [accept_route_state(changed) EXCEPT !.is_dirty = TRUE]

ShadowContext_restore_no_removal(shadow) ==
    IF shadow.is_dirty
    THEN accept_route_state(with_tour(shadow, shadow.tour))
    ELSE shadow

\* ShadowContext::restore
ShadowContext_restore(shadow) ==
    IF shadow.is_dirty
    THEN accept_route_state(with_tour(shadow, remove_job(shadow.tour)))
    ELSE shadow

\* the tour of the RouteContext given to evaluate_multi after the shadow
\* has written: a write of a shadow that shares the route changes it
tour_behind(original, shadow) ==
    IF shadow.shared THEN shadow.tour ELSE original

\* concat_activities
concat_activities(activities, activity) ==
    (IF activities.some THEN activities.v ELSE <<>>) \o <<activity>>

\* evaluate_multi, lines 178-183: the result for the route
evaluate_multi_result(result, route_costs, route_ref) ==
    IF MultiContext_is_success(result)
    THEN Success(result.cost.v + route_costs, result.activities.v, route_ref)
    ELSE Failure(IF result.violation.some THEN result.violation.v.code ELSE 0)

\* lines 174-176: the permutation's result is promoted against the best of
\* the permutations before it; a stopped violation ends the fold
end_permutation(perm_res, m, permutations) ==
    LET r == MultiContext_promote(perm_res, m.acc_res)
    IN  [multi |-> [m EXCEPT !.acc_res = r.ctx, !.perm = m.perm + 1],
         epc |-> IF r.ok /\ m.perm < Len(permutations)
                 THEN "perm" ELSE "multi_result"]

\* lines 171-172: the sequence's result is promoted against the best of the
\* start indices before it; a stopped violation ends the permutation
end_sequence(sq_res, m, permutations) ==
    LET r == MultiContext_promote(sq_res, m.out.v)
    IN  IF r.ok
        THEN [multi |-> [m EXCEPT !.out = Some(r.ctx)], epc |-> "start_index"]
        ELSE end_permutation(r.ctx, [m EXCEPT !.out = Some(r.ctx)], permutations)

\* The cheapest legal candidates, kept beside the evaluation to compare its
\* result with: `found` is the first cheapest one among the candidates that
\* no stopped violation cuts off (for a Multi job: among the sequences that
\* placed every sub-task), `any` the lowest cost of all legal candidates of
\* a Single job.
Found(cost, route_ref, activities) ==
    [cost |-> cost, route |-> route_ref, activities |-> activities]
OptMin(a, b) ==
    IF ~a.some THEN b ELSE IF ~b.some THEN a ELSE IF b.v < a.v THEN b ELSE a
OptAdd(a, c) == IF a.some THEN Some(a.v + c) ELSE None
first_cheapest(found, cand) ==
    IF ~cand.some THEN found
    ELSE IF ~found.some THEN cand
    ELSE IF cand.v.cost < found.v.cost THEN cand ELSE found

\* no candidate of the route is analyzed yet
NothingEncountered == [violation |-> None, legal |-> FALSE]

EvalInit ==
    /\ RunIdle
    /\ TermIdle
    /\ BuildIdle
    /\ ChunkIdle
    /\ RuinIdle
    /\ LaterIdle
    /\ epc = "select"
    /\ job \in Jobs
    /\ position \in Positions
    /\ \E n \in 0..MaxRoutes : routes = [count |-> n, yielded |-> 0]
    /\ route = None
    /\ acc = make_failure
    /\ single_ctx = None
    /\ cursor = None
    /\ multi = None
    /\ seen = {}
    /\ best = [found |-> None, any |-> None]
    /\ encountered = NothingEncountered

\* the cost of the Success the fold holds
best_known_cost_of(alternative) ==
    IF alternative.kind = "Success" THEN Some(alternative.cost) ELSE None

\* lines 33-34 and 49-54: the next route fails a hard route constraint
SelectRouteHardViolation ==
    /\ epc = "select"
    /\ routes.yielded < routes.count
    /\ \E code \in Codes :
          /\ acc' = choose_best_result(acc, Failure(code))
          /\ encountered' = [violation |-> Some(code), legal |-> FALSE]
    /\ routes' = [routes EXCEPT !.yielded = routes.yielded + 1]
    /\ route' = None
    /\ single_ctx' = None
    /\ cursor' = None
    /\ multi' = None
    /\ seen' = {}
    /\ UNCHANGED <<epc, job, position, best, notEval>>

SelectRoutePruned_or_equal ==
    /\ epc = "select"
    /\ routes.yielded < routes.count
    /\ \E legs \in 1..MaxLegs, route_costs \in Costs, reached, all \in OptCosts :
          LET no == routes.yielded + 1
              first == IF job.kind = "Single"
                       THEN first_candidate(job.places, legs,
                                get_insertion_index(legs, position), 0)
                       ELSE None
          IN  /\ acc.kind = "Success"
              /\ acc.cost <= route_costs
              /\ ~first.some => ~all.some
              /\ reached.some => (all.some /\ all.v <= reached.v)
              /\ route' = Some([no |-> no, legs |-> legs,
                                route_costs |-> route_costs])
              /\ best' = [found |-> first_cheapest(best.found,
                              IF reached.some
                              THEN Some(Found(reached.v + route_costs, no, <<>>))
                              ELSE None),
                          any |-> OptMin(best.any, OptAdd(all, route_costs))]
    /\ routes' = [routes EXCEPT !.yielded = routes.yielded + 1]
    /\ single_ctx' = None
    /\ cursor' = None
    /\ multi' = None
    /\ seen' = {}
    /\ encountered' = NothingEncountered
    /\ UNCHANGED <<epc, job, position, acc, notEval>>

\* lines 56-66: the next route costs more than the best known insertion;
\* none of its candidates is analyzed
SelectRoutePruned ==
    /\ epc = "select"
    /\ routes.yielded < routes.count
    /\ \E legs \in 1..MaxLegs, route_costs \in Costs, reached, all \in OptCosts :
          LET no == routes.yielded + 1
              first == IF job.kind = "Single"
                       THEN first_candidate(job.places, legs,
                                get_insertion_index(legs, position), 0)
                       ELSE None
          IN  /\ acc.kind = "Success"
              /\ acc.cost < route_costs
              /\ ~first.some => ~all.some
              /\ reached.some => (all.some /\ all.v <= reached.v)
              /\ route' = Some([no |-> no, legs |-> legs,
                                route_costs |-> route_costs])
              /\ best' = [found |-> first_cheapest(best.found,
                              IF reached.some
                              THEN Some(Found(reached.v + route_costs, no, <<>>))
                              ELSE None),
                          any |-> OptMin(best.any, OptAdd(all, route_costs))]
    /\ routes' = [routes EXCEPT !.yielded = routes.yielded + 1]
    /\ single_ctx' = None
    /\ cursor' = None
    /\ multi' = None
    /\ seen' = {}
    /\ encountered' = NothingEncountered
    /\ UNCHANGED <<epc, job, position, acc, notEval>>

\* lines 56-72 and 103-113: the scan of the next route for a Single job
\* starts from the cost of the best known insertion
SelectRouteScan ==
    /\ epc = "select"
    /\ job.kind = "Single"
    /\ routes.yielded < routes.count
    /\ \E legs \in 1..MaxLegs, route_costs \in Costs :
          LET best_known_cost == best_known_cost_of(acc)
          IN  /\ ~(best_known_cost.some /\ best_known_cost.v < route_costs)
              /\ route' = Some([no |-> routes.yielded + 1, legs |-> legs,
                                route_costs |-> route_costs])
              /\ single_ctx' = Some(SingleContext_new(best_known_cost, 0))
              /\ cursor' = first_candidate(job.places, legs,
                               get_insertion_index(legs, position), 0)
    /\ epc' = IF cursor'.some THEN "scan" ELSE "result"
    /\ seen' = {}
    /\ encountered' = NothingEncountered
    /\ UNCHANGED <<job, position, routes, acc, multi, best, notEval>>

\* lines 228-251: one candidate is analyzed, of the Single job in the route
\* or of a sub-task in the shadow; a stopped violation ends the scan
AnalyzeCandidate ==
    /\ epc = "scan"
    /\ \E answer \in Answers, rest \in OptCosts :
          LET single == job.kind = "Single"
              places == IF single THEN job.places ELSE ServicePlaces
              legs == IF single THEN route.v.legs
                      ELSE legs_count(multi.v.shadow.tour)
              insertion_idx == IF single
                               THEN get_insertion_index(legs, position)
                               ELSE None
              cur == cursor.v
              place == [place |-> cur.place, time |-> cur.time]
              res == analyze_time_window(single_ctx.v, cur.leg, place, answer)
              following == next_candidate(places, legs, insertion_idx, cur)
              legal == ~answer.violation.some
              stopped == answer.violation.some /\ answer.violation.v.stopped
              total == answer.costs + route.v.route_costs
          IN  /\ single_ctx' = Some(res.ctx)
              /\ cursor' = IF res.ok THEN following ELSE None
              /\ epc' = IF cursor'.some THEN "scan"
                        ELSE IF single THEN "result" ELSE "service_result"
              /\ seen' = IF legal /\ single
                         THEN seen \cup {[leg |-> cur.leg, place |-> place,
                                          costs |-> answer.costs]}
                         ELSE seen
              /\ encountered' =
                   IF legal THEN [encountered EXCEPT !.legal = TRUE]
                   ELSE [encountered EXCEPT
                            !.violation = Some(answer.violation.v.code)]
              \* `rest`: the cheapest legal candidate among those a stopped
              \* violation leaves unanalyzed
              /\ rest.some => (single /\ stopped /\ following.some)
              /\ best' =
                   IF ~single THEN best
                   ELSE IF legal
                   THEN [found |-> first_cheapest(best.found,
                                       Some(Found(total, route.v.no,
                                            <<ActivityAt(0, place, cur.leg)>>))),
                         any |-> OptMin(best.any, Some(total))]
                   ELSE [best EXCEPT
                            !.any = OptMin(best.any,
                                           OptAdd(rest, route.v.route_costs))]
    /\ UNCHANGED <<job, position, routes, route, acc, multi, notEval>>

\* lines 115-121 and 68-78: the route's result is compared with the best known
EvaluateSingleResult ==
    /\ epc = "result"
    /\ acc' = choose_best_result(acc,
                  evaluate_single_result(single_ctx.v, route.v.route_costs,
                                         route.v.no))
    /\ routes' = [routes EXCEPT !.yielded = routes.yielded + 1]
    /\ epc' = "select"
    /\ UNCHANGED <<job, position, route, single_ctx, cursor, multi, seen, best,
                   encountered, notEval>>

\* line 33: the selector has no more routes and the fold returns
FoldDone ==
    /\ epc = "select"
    /\ routes.yielded = routes.count
    /\ epc' = "done"
    /\ UNCHANGED <<job, position, routes, route, acc, single_ctx, cursor, multi,
                   seen, best, encountered, notEval>>

\* lines 56-66 and 133-136: evaluate_multi starts on the next route
MultiStart ==
    /\ epc = "select"
    /\ job.kind = "Multi"
    /\ routes.yielded < routes.count
    /\ \E legs \in 1..MaxLegs, route_costs \in Costs :
          LET best_known_cost == best_known_cost_of(acc)
              idx == get_insertion_index(legs, position)
              insertion_idx == IF idx.some THEN idx.v ELSE 0
          IN  /\ ~(best_known_cost.some /\ best_known_cost.v < route_costs)
              /\ route' = Some([no |-> routes.yielded + 1, legs |-> legs,
                                route_costs |-> route_costs])
              /\ multi' = Some([insertion_idx |-> insertion_idx,
                                acc_res |-> MultiContext_new(best_known_cost,
                                                             insertion_idx),
                                perm |-> 1,
                                shadow |-> ShadowContext_new(tour_of(legs)),
                                original |-> tour_of(legs),
                                out |-> None,
                                in1 |-> None,
                                service |-> 0])
    /\ epc' = IF Len(job.permutations) = 0 THEN "multi_result" ELSE "perm"
    /\ single_ctx' = None
    /\ cursor' = None
    /\ seen' = {}
    /\ encountered' = NothingEncountered
    /\ UNCHANGED <<job, position, routes, acc, best, notEval>>

\* lines 137-139: the next permutation gets a fresh shadow of the route
PermutationStart ==
    /\ epc = "perm"
    /\ multi' = Some([multi.v EXCEPT
                        !.shadow = ShadowContext_new(multi.v.original),
                        !.out = Some(MultiContext_new(None,
                                                      multi.v.insertion_idx))])
    /\ epc' = "start_index"
    /\ UNCHANGED <<job, position, routes, route, acc, single_ctx, cursor, seen,
                   best, encountered, notEval>>

\* lines 140-142 and 174: no start index is left for this permutation
StartIndexFailure ==
    /\ epc = "start_index"
    /\ MultiContext_is_failure(multi.v.out.v,
                               activity_count(tour_of(route.v.legs)))
    /\ LET e == end_permutation(multi.v.out.v, multi.v, job.permutations)
       IN  /\ multi' = Some(e.multi)
           /\ epc' = e.epc
    /\ UNCHANGED <<job, position, routes, route, acc, single_ctx, cursor, seen,
                   best, encountered, notEval>>

\* lines 140-142, 174 and 326: in a build that checks for overflow the
\* promote of a permutation that starts at usize::MAX panics
PromoteOverflowPanics ==
    /\ epc = "start_index"
    /\ MultiContext_is_failure(multi.v.out.v,
                               activity_count(tour_of(route.v.legs)))
    /\ promote_overflows(multi.v.out.v, multi.v.acc_res)
    /\ epc' = "panicked"
    /\ UNCHANGED <<job, position, routes, route, acc, single_ctx, cursor, multi,
                   seen, best, encountered, notEval>>

\* lines 143-146: the shadow is restored and the sub-tasks are tried from
\* the next start index
StartIndexAttempt ==
    /\ epc = "start_index"
    /\ ~MultiContext_is_failure(multi.v.out.v,
                                activity_count(tour_of(route.v.legs)))
    /\ multi' = Some([multi.v EXCEPT
                        !.shadow = ShadowContext_restore(multi.v.shadow),
                        !.original = tour_behind(multi.v.original,
                                         ShadowContext_restore(multi.v.shadow)),
                        !.in1 = Some(MultiContext_next(multi.v.out.v)),
                        !.service = 1])
    /\ epc' = "service"
    /\ UNCHANGED <<job, position, routes, route, acc, single_ctx, cursor, seen,
                   best, encountered, notEval>>

\* lines 146-159: the legs of the shadow from next_index on are scanned for
\* the next sub-task
ServiceStart ==
    /\ epc = "service"
    /\ multi.v.service <= Len(job.permutations[multi.v.perm])
    /\ ~multi.v.in1.v.violation.some
    /\ single_ctx' = Some(SingleContext_new(None, multi.v.in1.v.next_index))
    /\ cursor' = first_candidate(ServicePlaces,
                                 legs_count(multi.v.shadow.tour), None,
                                 multi.v.in1.v.next_index)
    /\ epc' = IF cursor'.some THEN "scan" ELSE "service_result"
    /\ UNCHANGED <<job, position, routes, route, acc, multi, seen, best,
                   encountered, notEval>>

\* lines 161-166: the sub-task is inserted into the shadow
ServiceInserted ==
    /\ epc = "service_result"
    /\ SingleContext_is_success(single_ctx.v)
    /\ LET m == multi.v
           srv_res == single_ctx.v
           service == job.permutations[m.perm][m.service]
           activities == concat_activities(m.in1.v.activities,
                             ActivityAt(service, srv_res.place.v, srv_res.index))
           cost == (IF m.in1.v.cost.some THEN m.in1.v.cost.v ELSE 0)
                   + srv_res.cost.v
       IN  multi' = Some([m EXCEPT
                 !.shadow = ShadowContext_insert(m.shadow, service, srv_res.index),
                 !.original = tour_behind(m.original,
                     ShadowContext_insert(m.shadow, service, srv_res.index)),
                 !.in1 = Some(MultiContext_success(cost, activities).ctx),
                 !.service = m.service + 1])
    /\ epc' = "service"
    /\ UNCHANGED <<job, position, routes, route, acc, single_ctx, cursor, seen,
                   best, encountered, notEval>>

\* lines 168-172: the sub-task has no legal leg; the sequence fails
ServiceFailed ==
    /\ epc = "service_result"
    /\ ~SingleContext_is_success(single_ctx.v)
    /\ LET sq_res == MultiContext_fail(single_ctx.v, multi.v.in1.v).ctx
           e == end_sequence(sq_res, [multi.v EXCEPT !.in1 = Some(sq_res)],
                             job.permutations)
       IN  /\ multi' = Some(e.multi)
           /\ epc' = e.epc
    /\ UNCHANGED <<job, position, routes, route, acc, single_ctx, cursor, seen,
                   best, encountered, notEval>>

\* lines 146-149 and 169-172: every sub-task of the permutation is placed
SequenceEnd ==
    /\ epc = "service"
    /\ \/ multi.v.service > Len(job.permutations[multi.v.perm])
       \/ multi.v.in1.v.violation.some
    /\ LET sq_res == multi.v.in1.v
           e == end_sequence(sq_res, multi.v, job.permutations)
       IN  /\ multi' = Some(e.multi)
           /\ epc' = e.epc
           /\ best' = IF MultiContext_is_success(sq_res)
                      THEN [best EXCEPT !.found =
                               first_cheapest(best.found,
                                   Some(Found(sq_res.cost.v + route.v.route_costs,
                                              route.v.no, sq_res.activities.v)))]
                      ELSE best
    /\ UNCHANGED <<job, position, routes, route, acc, single_ctx, cursor, seen,
                   encountered, notEval>>

\* lines 178-183 and 68-78: the route's result is compared with the best known
EvaluateMultiResult ==
    /\ epc = "multi_result"
    /\ acc' = choose_best_result(acc,
                  evaluate_multi_result(multi.v.acc_res, route.v.route_costs,
                                        route.v.no))
    /\ routes' = [routes EXCEPT !.yielded = routes.yielded + 1]
    /\ epc' = "select"
    /\ UNCHANGED <<job, position, route, single_ctx, cursor, multi, seen, best,
                   encountered, notEval>>

EvalNext ==
    \/ SelectRouteHardViolation
    \/ SelectRoutePruned
    \/ SelectRouteScan
    \/ AnalyzeCandidate
    \/ EvaluateSingleResult
    \/ MultiStart
    \/ PermutationStart
    \/ StartIndexFailure
    \/ PromoteOverflowPanics
    \/ StartIndexAttempt
    \/ ServiceStart
    \/ ServiceInserted
    \/ ServiceFailed
    \/ SequenceEnd
    \/ EvaluateMultiResult
    \/ FoldDone

EvalSpec == EvalInit /\ [][EvalNext]_vars

----------------------------------------------------------------------------
(* The builders: EvolutionConfigBuilder (rosomaxa) and the solver Builder  *)
(* (vrp-core). The fluent calls set fields of the builder in any order and *)
(* any number of times; build() consumes the builder. Of the fields only   *)
(* those are kept that build() reads for the termination, the quota and    *)
(* its errors.                                                             *)

\* default max-generations and max-time (seconds)
DefaultMaxGenerations == 3000
DefaultMaxTime == 300

\* arguments of with_max_generations and with_max_time
OptLimits == {None} \cup {Some(n) : n \in 0..MaxArg}

\* the interval type of a variation criterion
IntervalTypes == {"sample", "period", "other"}

\* the min_cv argument of with_min_cv
OptIntervalTypes == {None} \cup {Some(t) : t \in IntervalTypes}

\* MaxGeneration::new
MaxGeneration_new(lim) == [kind |-> "MaxGeneration", limit |-> lim]

\* MaxTime::new
MaxTime_new(lim) == [kind |-> "MaxTime", limit |-> lim]

\* MinVariation::new_with_sample / new_with_period
MinVariation_new(interval_type) ==
    [kind |-> "MinVariation", interval_type |-> interval_type]

\* CostVariation::new
CostVariation_new == [kind |-> "CostVariation"]

\* CompositeTermination::new
CompositeTermination_new(terminations) ==
    [kind |-> "CompositeTermination", terminations |-> terminations]

\* a termination made by the caller
CustomTermination == [kind |-> "Custom"]

\* TimeQuota::new
TimeQuota_new(limit_in_secs) == [limit_in_secs |-> limit_in_secs]

\* Environment values a caller can supply
Environments ==
    {[quota |-> q] : q \in {None} \cup {Some(TimeQuota_new(s)) : s \in 0..MaxArg}}

\* EvolutionConfigBuilder::default
EvolutionConfigBuilder_default ==
    [max_generations |-> None, max_time |-> None, min_cv |-> None,
     heuristic |-> None, population |-> None, termination |-> None,
     heuristic_operators |-> None, heuristic_group |-> None,
     environment |-> None]

\* DefaultRandom::default: a generator seeded from the system's entropy
DefaultRandom_default == [kind |-> "entropy"]

\* DefaultRandom::new_with_seed: a generator whose sequence the seed fixes
DefaultRandom_new_with_seed(seed) == [kind |-> "seeded", seed |-> seed]

\* InsertionContext::new_from_solution: the individual keeps the Random
InsertionContext_new_from_solution(solution, random) ==
    [solution |-> solution, random |-> random]

\* Builder::new
Builder_new ==
    [max_generations |-> None, max_time |-> None, cost_variation |-> None,
     seed |-> None,
     config |-> [termination |->
                     CompositeTermination_new(
                         <<MaxTime_new(DefaultMaxTime),
                           MaxGeneration_new(DefaultMaxGenerations)>>),
                 quota |-> None,
                 random |-> DefaultRandom_default,
                 individuals |-> <<>>]]

\* the criteria pushed for the configured limits, in the order of the code
criterias_of(max_generations, max_time, variation) ==
    (IF max_generations.some THEN <<MaxGeneration_new(max_generations.v)>>
     ELSE <<>>)
    \o (IF max_time.some THEN <<MaxTime_new(max_time.v)>> ELSE <<>>)
    \o variation

\* EvolutionConfigBuilder::get_termination
get_termination(self) ==
    IF ~self.max_generations.some /\ ~self.max_time.some /\ ~self.min_cv.some
    THEN Ok([termination |-> CompositeTermination_new(
                                <<MaxGeneration_new(DefaultMaxGenerations),
                                  MaxTime_new(DefaultMaxTime)>>),
             quota |-> Some(TimeQuota_new(DefaultMaxTime))])
    ELSE IF self.min_cv.some /\ self.min_cv.v \notin {"sample", "period"}
    THEN Err("unknown variation interval type")
    ELSE Ok([termination |-> CompositeTermination_new(
                criterias_of(self.max_generations, self.max_time,
                    IF self.min_cv.some
                    THEN <<MinVariation_new(self.min_cv.v)>> ELSE <<>>)),
             quota |-> IF self.max_time.some
                       THEN Some(TimeQuota_new(self.max_time.v)) ELSE None])

EvolutionConfigBuilder_build_any_population(self) ==
    LET t == get_termination(self)
        environment == IF self.environment.some THEN self.environment.v
                       ELSE [quota |-> t.ctx.quota]
    IN  IF ~t.ok THEN t
        ELSE IF ~self.heuristic.some /\ ~self.heuristic_operators.some
        THEN Err("missing heuristic operators or heuristic")
        ELSE IF ~self.heuristic.some /\ ~self.heuristic_group.some
        THEN Err("missing heuristic group or heuristic")
        ELSE Ok([heuristic |-> IF self.heuristic.some THEN self.heuristic.v
                               ELSE "MultiSelective",
                 population |-> IF self.population.some
                                THEN self.population.v ELSE "default",
                 termination |-> t.ctx.termination,
                 environment |-> environment])

\* EvolutionConfigBuilder::build
EvolutionConfigBuilder_build(self) ==
    LET t == get_termination(self)
        environment == IF self.environment.some THEN self.environment.v
                       ELSE [quota |-> t.ctx.quota]
    IN  IF ~t.ok THEN t
        ELSE IF ~self.heuristic.some /\ ~self.heuristic_operators.some
        THEN Err("missing heuristic operators or heuristic")
        ELSE IF ~self.heuristic.some /\ ~self.heuristic_group.some
        THEN Err("missing heuristic group or heuristic")
        ELSE IF ~self.population.some
        THEN Err("missing heuristic population")
        ELSE Ok([heuristic |-> IF self.heuristic.some THEN self.heuristic.v
                               ELSE "MultiSelective",
                 population |-> self.population.v,
                 termination |-> t.ctx.termination,
                 environment |-> environment])

\* Builder::build
Builder_build(self) ==
    LET default == ~self.max_generations.some /\ ~self.max_time.some
                   /\ ~self.cost_variation.some
        criterias ==
            IF default
            THEN <<MaxGeneration_new(DefaultMaxGenerations),
                   MaxTime_new(DefaultMaxTime)>>
            ELSE criterias_of(self.max_generations, self.max_time,
                     IF self.cost_variation.some
                     THEN <<CostVariation_new>> ELSE <<>>)
        time_quota == IF ~default /\ self.max_time.some
                      THEN Some(TimeQuota_new(self.max_time.v)) ELSE None
    IN  Ok([termination |-> CompositeTermination_new(criterias),
            quota |-> time_quota,
            random |-> IF self.seed.some
                       THEN DefaultRandom_new_with_seed(self.seed.v)
                       ELSE DefaultRandom_default,
            individuals |-> self.config.individuals])

BuildInit ==
    /\ RunIdle
    /\ TermIdle
    /\ EvalIdle
    /\ ChunkIdle
    /\ RuinIdle
    /\ LaterIdle
    /\ bpc = "config"
    /\ builder \in {[type |-> "EvolutionConfigBuilder",
                     self |-> EvolutionConfigBuilder_default],
                    [type |-> "Builder", self |-> Builder_new]}
    /\ built = None

\* EvolutionConfigBuilder::with_environment
with_environment ==
    /\ bpc = "config"
    /\ builder.type = "EvolutionConfigBuilder"
    /\ \E environment \in Environments :
          builder' = [builder EXCEPT !.self.environment = Some(environment)]
    /\ UNCHANGED <<bpc, built, notBuild>>

\* EvolutionConfigBuilder::with_max_generations
with_max_generations ==
    /\ bpc = "config"
    /\ builder.type = "EvolutionConfigBuilder"
    /\ \E lim \in OptLimits :
          builder' = [builder EXCEPT !.self.max_generations = lim]
    /\ UNCHANGED <<bpc, built, notBuild>>

\* EvolutionConfigBuilder::with_max_time
with_max_time ==
    /\ bpc = "config"
    /\ builder.type = "EvolutionConfigBuilder"
    /\ \E lim \in OptLimits :
          builder' = [builder EXCEPT !.self.max_time = lim]
    /\ UNCHANGED <<bpc, built, notBuild>>

\* EvolutionConfigBuilder::with_min_cv
with_min_cv ==
    /\ bpc = "config"
    /\ builder.type = "EvolutionConfigBuilder"
    /\ \E min_cv \in OptIntervalTypes :
          builder' = [builder EXCEPT !.self.min_cv = min_cv]
    /\ UNCHANGED <<bpc, built, notBuild>>

\* EvolutionConfigBuilder::with_population
with_population ==
    /\ bpc = "config"
    /\ builder.type = "EvolutionConfigBuilder"
    /\ builder' = [builder EXCEPT !.self.population = Some("custom")]
    /\ UNCHANGED <<bpc, built, notBuild>>

\* EvolutionConfigBuilder::with_termination
with_termination ==
    /\ bpc = "config"
    /\ builder.type = "EvolutionConfigBuilder"
    /\ builder' = [builder EXCEPT !.self.termination = Some(CustomTermination)]
    /\ UNCHANGED <<bpc, built, notBuild>>

\* EvolutionConfigBuilder::with_heuristic
with_heuristic ==
    /\ bpc = "config"
    /\ builder.type = "EvolutionConfigBuilder"
    /\ builder' = [builder EXCEPT !.self.heuristic = Some("custom")]
    /\ UNCHANGED <<bpc, built, notBuild>>

\* EvolutionConfigBuilder::with_operators
with_operators ==
    /\ bpc = "config"
    /\ builder.type = "EvolutionConfigBuilder"
    /\ builder' = [builder EXCEPT !.self.heuristic_operators = Some("custom")]
    /\ UNCHANGED <<bpc, built, notBuild>>

\* EvolutionConfigBuilder::with_group
with_group ==
    /\ bpc = "config"
    /\ builder.type = "EvolutionConfigBuilder"
    /\ builder' = [builder EXCEPT !.self.heuristic_group = Some("custom")]
    /\ UNCHANGED <<bpc, built, notBuild>>

\* EvolutionConfigBuilder::build
EvolutionConfigBuilderBuild ==
    /\ bpc = "config"
    /\ builder.type = "EvolutionConfigBuilder"
    /\ built' = Some(EvolutionConfigBuilder_build(builder.self))
    /\ bpc' = "built"
    /\ UNCHANGED <<builder, notBuild>>

\* Builder::with_max_generations
Builder_with_max_generations ==
    /\ bpc = "config"
    /\ builder.type = "Builder"
    /\ \E lim \in OptLimits :
          builder' = [builder EXCEPT !.self.max_generations = lim]
    /\ UNCHANGED <<bpc, built, notBuild>>

\* Builder::with_max_time
Builder_with_max_time ==
    /\ bpc = "config"
    /\ builder.type = "Builder"
    /\ \E lim \in OptLimits :
          builder' = [builder EXCEPT !.self.max_time = lim]
    /\ UNCHANGED <<bpc, built, notBuild>>

\* Builder::with_cost_variation
Builder_with_cost_variation ==
    /\ bpc = "config"
    /\ builder.type = "Builder"
    /\ \E variation \in {None, Some("variation")} :
          builder' = [builder EXCEPT !.self.cost_variation = variation]
    /\ UNCHANGED <<bpc, built, notBuild>>

\* Builder::with_termination
Builder_with_termination ==
    /\ bpc = "config"
    /\ builder.type = "Builder"
    /\ builder' = [builder EXCEPT !.self.config.termination = CustomTermination]
    /\ UNCHANGED <<bpc, built, notBuild>>

\* Builder::with_init_solutions
Builder_with_init_solutions ==
    /\ bpc = "config"
    /\ builder.type = "Builder"
    /\ \E n \in 0..MaxSolutions :
          builder' = [builder EXCEPT !.self.config.individuals =
                         [i \in 1..n |->
                             InsertionContext_new_from_solution(
                                 i, DefaultRandom_default)]]
    /\ UNCHANGED <<bpc, built, notBuild>>

\* Builder::with_seed
Builder_with_seed ==
    /\ bpc = "config"
    /\ builder.type = "Builder"
    /\ \E seed \in {None} \cup {Some(v) : v \in 0..MaxSeed} :
          builder' = [builder EXCEPT !.self.seed = seed]
    /\ UNCHANGED <<bpc, built, notBuild>>

\* Builder::build
BuilderBuild ==
    /\ bpc = "config"
    /\ builder.type = "Builder"
    /\ built' = Some(Builder_build(builder.self))
    /\ bpc' = "built"
    /\ UNCHANGED <<builder, notBuild>>

BuildNext ==
    \/ with_environment
    \/ with_max_generations
    \/ with_max_time
    \/ with_min_cv
    \/ with_population
    \/ with_termination
    \/ with_heuristic
    \/ with_operators
    \/ with_group
    \/ EvolutionConfigBuilderBuild
    \/ Builder_with_max_generations
    \/ Builder_with_max_time
    \/ Builder_with_cost_variation
    \/ Builder_with_termination
    \/ Builder_with_init_solutions
    \/ Builder_with_seed
    \/ BuilderBuild

BuildSpec == BuildInit /\ [][BuildNext]_vars

----------------------------------------------------------------------------
(* get_removal_chunk_size: the number of jobs a limit-driven ruin removes. *)
(* The integer widths are scaled down: usize has UsizeBits bits and i32    *)
(* has I32Bits bits (two's complement), so that the casts between them     *)
(* behave as those between a 64-bit usize and i32. The thresholds are      *)
(* dyadic, so the f64 product is exact.                                    *)

\* i32::MAX and i32::MIN
I32Max == 2^(I32Bits - 1) - 1
I32Min == -(2^(I32Bits - 1))

\* `n as i32` for a usize n: the low bits, read as two's complement
usize_as_i32(n) ==
    LET low == n % 2^I32Bits
    IN  IF low > I32Max THEN low - 2^I32Bits ELSE low

\* `v as usize` for an i32 v: sign extension
i32_as_usize(v) == IF v < 0 THEN 2^UsizeBits + v ELSE v

\* `n as f64` for a usize n
usize_as_f64(n) == F64Fin(n, 1)

\* x * y for finite values
F64Mul(x, y) == F64Fin(x.n * y.n, x.d * y.d)

\* f64::min for finite values
F64Min(x, y) == IF F64Le(x, y) THEN x ELSE y

\* f64::round for a finite value that is not negative: half away from zero
F64Round(x) == F64Fin((2 * x.n + x.d) \div (2 * x.d), 1)

\* `x as usize` for a whole value that is not negative: saturating
f64_as_usize(x) == IF x.n \div x.d > UsizeMax THEN UsizeMax ELSE x.n \div x.d

\* i32::min
i32_min(a, b) == IF a < b THEN a ELSE b

\* the values of limit.min and limit.max: small ones and those next to the
\* limits of i32 and usize
LimitValues ==
    (0..2) \cup {I32Max, I32Max + 1, 2^I32Bits - 1, 2^I32Bits, UsizeMax}

\* the values of limit.threshold
Thresholds == {F64Fin(0, 1), F64Fin(1, 4), F64Fin(1, 2), F64Fin(1, 1)}

\* JobRemovalLimit::new
JobRemovalLimit_new(min, max, threshold) ==
    [min |-> min, max |-> max, threshold |-> threshold]

\* line 148: the jobs of the problem that are neither unassigned nor ignored
assigned_of(c) == c.jobs - c.unassigned - c.ignored

\* line 150
max_limit_of(assigned, lim) ==
    f64_as_usize(F64Round(F64Min(F64Mul(usize_as_f64(assigned), lim.threshold),
                                 usize_as_f64(lim.max))))

\* the outcomes of the call
Returned(n) == [kind |-> "returned", size |-> n]
Panicked == [kind |-> "panicked"]

ChunkInit ==
    /\ RunIdle
    /\ TermIdle
    /\ EvalIdle
    /\ BuildIdle
    /\ RuinIdle
    /\ LaterIdle
    /\ \E jobs \in 0..MaxJobs, min \in LimitValues, max \in LimitValues,
          threshold \in Thresholds :
          \E unassigned \in 0..jobs :
              \E ignored \in 0..(jobs - unassigned) :
                  chunk = Some([jobs |-> jobs, unassigned |-> unassigned,
                                ignored |-> ignored,
                                limit |-> JobRemovalLimit_new(min, max, threshold),
                                drawn |-> None, result |-> None])

\* get_removal_chunk_size, with the value random.uniform_int draws from
\* [min as i32, max as i32]; an empty range has no value to draw
GetRemovalChunkSize ==
    /\ chunk.some
    /\ ~chunk.v.result.some
    /\ LET c == chunk.v
           max_limit == max_limit_of(assigned_of(c), c.limit)
           lo == usize_as_i32(c.limit.min)
           hi == usize_as_i32(c.limit.max)
       IN  IF lo > hi
           THEN chunk' = Some([c EXCEPT !.result = Some(Panicked)])
           ELSE \E u \in lo..hi :
                   chunk' = Some([c EXCEPT
                       !.drawn = Some(u),
                       !.result = Some(Returned(i32_as_usize(
                                      i32_min(u, usize_as_i32(max_limit)))))])
    /\ UNCHANGED notChunk

ChunkNext == GetRemovalChunkSize

ChunkSpec == ChunkInit /\ [][ChunkNext]_vars

----------------------------------------------------------------------------
(* CompositeRuin::run. Probabilities and the values of uniform_real(0, 1)  *)
(* are counted in steps of 1/DrawSteps; a ruin is known by its group and   *)
(* its place in the group, and the solution records the ruins run on it.   *)

\* trigger probabilities: 0, one step, and 1
Probabilities == {0, 1, DrawSteps}

\* the values random.uniform_real(0., 1.) returns: [0, 1)
Draws == 0..(DrawSteps - 1)

\* the lists of trigger probabilities of a group's ruins
RuinLists == UNION {[1..n -> Probabilities] : n \in 0..MaxRuins}

\* CompositeRuin::new: the ruins and the weights of the groups
CompositeRuin_new(groups) ==
    [ruins |-> [g \in 1..Len(groups) |-> groups[g][1]],
     weights |-> [g \in 1..Len(groups) |-> groups[g][2]]]

\* random.weighted(weights): the indices with a weight that is not zero
weighted(weights) == {g \in 1..Len(weights) : weights[g] > 0}

is_triggered_or_equal(probability, draw) == probability >= draw

\* line 138: *probability > random.uniform_real(0., 1.)
is_triggered(probability, draw) == probability > draw

\* ruin.run(refinement_ctx, ctx) of the ruin at place k of group g
Ruin_run(ctx, g, k) == [ctx EXCEPT !.ruined = Append(ctx.ruined, <<g, k>>)]

\* insertion_ctx.restore()
InsertionContext_restore(ctx) == [ctx EXCEPT !.restored = TRUE]

RuinInit ==
    /\ RunIdle
    /\ TermIdle
    /\ EvalIdle
    /\ BuildIdle
    /\ ChunkIdle
    /\ LaterIdle
    /\ rpc = "called"
    /\ \E first \in RuinLists, second \in RuinLists, weight \in 0..1 :
          composite = CompositeRuin_new(<< <<first, 1>>, <<second, weight>> >>)
    /\ \E n \in 0..1 :
          insertion_ctx = [routes |-> n, ruined |-> <<>>, restored |-> FALSE]
    /\ ruining = None

\* lines 125-127: a solution without routes is returned as it is
ReturnWithoutRoutes ==
    /\ rpc = "called"
    /\ insertion_ctx.routes = 0
    /\ rpc' = "returned"
    /\ UNCHANGED <<composite, insertion_ctx, ruining, notRuin>>

\* lines 129-136: one group is picked by its weight
PickGroup ==
    /\ rpc = "called"
    /\ insertion_ctx.routes # 0
    /\ \E index \in weighted(composite.weights) :
          ruining' = Some([index |-> index, next |-> 1, draws |-> <<>>])
    /\ rpc' = "fold"
    /\ UNCHANGED <<composite, insertion_ctx, notRuin>>

\* lines 137-139: the next ruin of the group passes the filter and runs on
\* the solution the fold holds
RuinTriggered ==
    /\ rpc = "fold"
    /\ ruining.v.next <= Len(composite.ruins[ruining.v.index])
    /\ \E draw \in Draws :
          /\ is_triggered(composite.ruins[ruining.v.index][ruining.v.next], draw)
          /\ ruining' = Some([ruining.v EXCEPT
                                 !.next = ruining.v.next + 1,
                                 !.draws = Append(ruining.v.draws, draw)])
    /\ insertion_ctx' = Ruin_run(insertion_ctx, ruining.v.index, ruining.v.next)
    /\ UNCHANGED <<rpc, composite, notRuin>>

\* line 138: the next ruin of the group does not pass the filter
RuinSkipped ==
    /\ rpc = "fold"
    /\ ruining.v.next <= Len(composite.ruins[ruining.v.index])
    /\ \E draw \in Draws :
          /\ ~is_triggered(composite.ruins[ruining.v.index][ruining.v.next], draw)
          /\ ruining' = Some([ruining.v EXCEPT
                                 !.next = ruining.v.next + 1,
                                 !.draws = Append(ruining.v.draws, draw)])
    /\ UNCHANGED <<rpc, composite, insertion_ctx, notRuin>>

\* lines 141-143: the group is done; the solution is restored and returned
RestoreAndReturn ==
    /\ rpc = "fold"
    /\ ruining.v.next > Len(composite.ruins[ruining.v.index])
    /\ insertion_ctx' = InsertionContext_restore(insertion_ctx)
    /\ rpc' = "returned"
    /\ UNCHANGED <<composite, ruining, notRuin>>

RuinNext ==
    \/ ReturnWithoutRoutes
    \/ PickGroup
    \/ RuinTriggered
    \/ RuinSkipped
    \/ RestoreAndReturn

RuinSpec == RuinInit /\ [][RuinNext]_vars

----------------------------------------------------------------------------
(* select_seed_job and select_random_job: the seed job of a ruin. A tour   *)
(* is its start, its activities and its end; an activity is 0 when it      *)
(* carries no job (as the start and the end do) and the job otherwise.     *)

SeedTours ==
    UNION {{<<0>> \o middle \o <<0>> : middle \in [1..n -> 0..1]} :
              n \in 0..MaxActivities}

SeedRoutes == UNION {[1..n -> SeedTours] : n \in 0..MaxSeedRoutes}

\* tour.has_jobs()
has_jobs(tour) == \E i \in 1..Len(tour) : tour[i] # 0

\* tour.get(index).and_then(|a| a.retrieve_job())
retrieve_job_at(tour, index) ==
    IF index + 1 <= Len(tour) /\ tour[index + 1] # 0
    THEN Some(tour[index + 1]) ELSE None

next_activity_index_short(ai, size) == (ai + 1) % size

\* line 230: the activity index after ai, cyclic over 0..size
next_activity_index(ai, size) == (ai + 1) % (size + 1)

\* line 205: the route index after ri, cyclic over the routes
next_route_index(ri, len) == (ri + 1) % len

\* lines 205-208 and 211: the next route, or None after the last one
next_route(sel) ==
    LET ri == next_route_index(sel.ri, Len(sel.routes))
    IN  IF ri = sel.route_index
        THEN [spc |-> "returned",
              seeding |-> [sel EXCEPT !.ri = ri, !.result = Some(None)]]
        ELSE [spc |-> "route", seeding |-> [sel EXCEPT !.ri = ri]]

SeedIdle_others ==
    /\ RunIdle
    /\ TermIdle
    /\ EvalIdle
    /\ BuildIdle
    /\ ChunkIdle
    /\ RuinIdle
    /\ HreIdle
    /\ GeoIdle

SeedInit ==
    /\ SeedIdle_others
    /\ spc = "called"
    /\ \E rs \in SeedRoutes :
          seeding = [routes |-> rs, route_index |-> 0, ri |-> 0,
                     activity_index |-> 0, ai |-> 0,
                     visited |-> <<>>, probed |-> <<>>, result |-> None]

\* lines 187-189: no routes, no seed
SelectInNoRoutes ==
    /\ spc = "called"
    /\ seeding.routes = <<>>
    /\ seeding' = [seeding EXCEPT !.result = Some(None)]
    /\ spc' = "returned"
    /\ UNCHANGED notSeed

\* lines 191-192: the route to start from is drawn
DrawRouteIndex ==
    /\ spc = "called"
    /\ seeding.routes # <<>>
    /\ \E route_index \in 0..(Len(seeding.routes) - 1) :
          seeding' = [seeding EXCEPT !.route_index = route_index,
                                     !.ri = route_index]
    /\ spc' = "route"
    /\ UNCHANGED notSeed

\* lines 195-197 and 205-208: a route without jobs is passed over; lines
\* 215-218: so is one without activities
RouteWithoutJobs ==
    /\ spc = "route"
    /\ LET rc == seeding.routes[seeding.ri + 1]
           sel == [seeding EXCEPT !.visited = Append(seeding.visited, seeding.ri)]
       IN  /\ ~has_jobs(rc) \/ activity_count(rc) = 0
           /\ seeding' = next_route(sel).seeding
           /\ spc' = next_route(sel).spc
    /\ UNCHANGED notSeed

\* lines 197-198 and 215-221: the activity to start from is drawn
DrawActivityIndex ==
    /\ spc = "route"
    /\ LET rc == seeding.routes[seeding.ri + 1]
           size == activity_count(rc)
       IN  /\ has_jobs(rc)
           /\ size # 0
           /\ \E activity_index \in 1..size :
                 seeding' = [seeding EXCEPT
                                !.visited = Append(seeding.visited, seeding.ri),
                                !.activity_index = activity_index,
                                !.ai = activity_index,
                                !.probed = <<>>]
    /\ spc' = "activity"
    /\ UNCHANGED notSeed

\* lines 224-228 and 199-201: the activity carries a job, which is the seed
ActivityWithJob ==
    /\ spc = "activity"
    /\ LET rc == seeding.routes[seeding.ri + 1]
           found == retrieve_job_at(rc, seeding.ai)
       IN  /\ found.some
           /\ seeding' = [seeding EXCEPT
                   !.probed = Append(seeding.probed, seeding.ai),
                   !.result = Some(Some([ri |-> seeding.ri, job |-> found.v]))]
    /\ spc' = "returned"
    /\ UNCHANGED notSeed

\* lines 224-236: the activity carries no job; the next index is tried, and
\* the route is given up when the scan is back at its first index
ActivityWithoutJob ==
    /\ spc = "activity"
    /\ LET rc == seeding.routes[seeding.ri + 1]
           size == activity_count(rc)
           ai == next_activity_index(seeding.ai, size)
           sel == [seeding EXCEPT
                      !.probed = Append(seeding.probed, seeding.ai),
                      !.ai = ai]
       IN  /\ ~retrieve_job_at(rc, seeding.ai).some
           /\ seeding' = IF ai = seeding.activity_index
                          THEN next_route(sel).seeding ELSE sel
           /\ spc' = IF ai = seeding.activity_index
                      THEN next_route(sel).spc ELSE "activity"
    /\ UNCHANGED notSeed

SeedNext ==
    \/ SelectInNoRoutes
    \/ DrawRouteIndex
    \/ RouteWithoutJobs
    \/ DrawActivityIndex
    \/ ActivityWithJob
    \/ ActivityWithoutJob

SeedSpec == SeedInit /\ [][SeedNext]_vars

\* the selection is sequential code: its next step is eventually taken
SeedFairSpec == SeedSpec /\ WF_vars(SeedNext)

----------------------------------------------------------------------------
(* The HRE adapter: convert_to_hre writes a pragmatic problem in the HRE   *)
(* format, deserialize_hre_problem reads an HRE document into a pragmatic  *)
(* problem. Of a problem the relations and the breaks of a vehicle shift   *)
(* are kept. A document is the JSON text: malformed, or the fields that    *)
(* serde reads into models::Problem, the relation type under its camelCase *)
(* name.                                                                   *)

\* vrp_pragmatic RelationType and the HRE models::RelationType
PragmaticRelationTypes == {"Strict", "Sequence", "Any"}
HreRelationTypes == {"Tour", "Flexible", "Sequence"}

JobLists == {<<"departure", "job1">>, <<"job1", "job2">>}
VehicleIds == {"v1_1", "v2_1"}
ShiftIndices == {None} \cup {Some(i) : i \in 0..MaxShiftIndex}

\* Relation, of either format
Relation(type_field, jobs, vehicle_id, shift_index) ==
    [type_field |-> type_field, jobs |-> jobs, vehicle_id |-> vehicle_id,
     shift_index |-> shift_index]

PragmaticRelations ==
    {Relation(t, j, v, i) : t \in PragmaticRelationTypes, j \in JobLists,
                            v \in VehicleIds, i \in ShiftIndices}
HreRelations ==
    {Relation(t, j, v, i) : t \in HreRelationTypes, j \in JobLists,
                            v \in VehicleIds, i \in ShiftIndices}

\* lines 28-37: serde's name of a models::RelationType (camelCase)
relation_type_to_json(type_field) ==
    CASE type_field = "Tour" -> "tour"
      [] type_field = "Flexible" -> "flexible"
      [] type_field = "Sequence" -> "sequence"

\* lines 28-37: the models::RelationType serde reads from a name
relation_type_from_json(name) ==
    CASE name = "tour" -> "Tour"
      [] name = "flexible" -> "Flexible"
      [] name = "sequence" -> "Sequence"

\* lines 40-52: a models::Relation written by serde, and read by it
relation_to_json(r) ==
    [r EXCEPT !.type_field = relation_type_to_json(r.type_field)]
relation_from_json(r) ==
    [r EXCEPT !.type_field = relation_type_from_json(r.type_field)]

\* convert_to_hre, lines 421-425: the relation type written
to_hre_relation_type(type_field) ==
    CASE type_field = "Strict" -> "Sequence"
      [] type_field = "Sequence" -> "Flexible"
      [] type_field = "Any" -> "Tour"

\* convert_to_hre, lines 420-430: the relation written
to_hre_relation(relation) ==
    Relation(to_hre_relation_type(relation.type_field), relation.jobs,
             relation.vehicle_id, None)

\* deserialize_hre_problem, lines 624-628: the relation type read
to_pragmatic_relation_type(type_field) ==
    CASE type_field = "Sequence" -> "Strict"
      [] type_field = "Flexible" -> "Sequence"
      [] type_field = "Tour" -> "Any"

\* deserialize_hre_problem, lines 623-633: the relation read
to_pragmatic_relation(r) ==
    Relation(to_pragmatic_relation_type(r.type_field), r.jobs, r.vehicle_id,
             r.shift_index)

\* the `times` of a models::VehicleBreak: a list of time windows
BreakTimes == UNION {[1..n -> {"tw"}] : n \in 0..MaxTimes}
BreakLists == UNION {[1..n -> BreakTimes] : n \in 0..MaxBreaks}

\* a document: malformed JSON, or the fields of a models::Problem
MalformedDocument == [well_formed |-> FALSE, relations |-> None, breaks |-> None]
Document(relations, breaks) ==
    [well_formed |-> TRUE, relations |-> relations, breaks |-> breaks]
Documents ==
    {MalformedDocument}
    \cup {Document(rs, bs) :
              rs \in {None}
                     \cup {Some(<<relation_to_json(r)>>) : r \in HreRelations},
              bs \in {None} \cup {Some(b) : b \in BreakLists}}

\* FormatError::new
FormatError_new(code, message, hint) ==
    [code |-> code, message |-> message, hint |-> hint]

\* Option::unwrap on None
UnwrapPanicked == [panicked |-> "called Option::unwrap() on a None value"]

\* lines 671-680: the breaks read; first().unwrap() of a break without times
\* panics
breaks_have_times(breaks) ==
    breaks.some => \A i \in 1..Len(breaks.v) : breaks.v[i] # <<>>
to_pragmatic_breaks(breaks) ==
    IF breaks.some
    THEN Some([i \in 1..Len(breaks.v) |-> [time |-> breaks.v[i][1]]])
    ELSE None

\* lines 620-635: the relations read
to_pragmatic_relations(relations) ==
    IF relations.some
    THEN Some([i \in 1..Len(relations.v) |->
                  to_pragmatic_relation(relation_from_json(relations.v[i]))])
    ELSE None

HreInit ==
    /\ RunIdle
    /\ TermIdle
    /\ EvalIdle
    /\ BuildIdle
    /\ ChunkIdle
    /\ RuinIdle
    /\ SeedIdle
    /\ GeoIdle
    /\ \/ \E r \in PragmaticRelations :
             hre = [problem |-> Some(r), document |-> None, read |-> None]
       \/ \E d \in Documents :
             hre = [problem |-> None, document |-> Some(d), read |-> None]

\* serialize_hre_problem: convert_to_hre of the problem, written by serde
SerializeHreProblem ==
    /\ hre.problem.some
    /\ ~hre.document.some
    /\ hre' = [hre EXCEPT !.document =
                   Some(Document(
                       Some(<<relation_to_json(to_hre_relation(hre.problem.v))>>),
                       None))]
    /\ UNCHANGED notHre

\* lines 590-591: serde cannot read the text
DeserializeMalformed ==
    /\ hre.document.some
    /\ ~hre.read.some
    /\ ~hre.document.v.well_formed
    /\ hre' = [hre EXCEPT !.read =
                   Some(Err(FormatError_new("E0000", "serde_json error",
                                            "Check input json")))]
    /\ UNCHANGED notHre

\* lines 671-680: a break of the document has no times
DeserializeBreakWithoutTimes ==
    /\ hre.document.some
    /\ ~hre.read.some
    /\ hre.document.v.well_formed
    /\ ~breaks_have_times(hre.document.v.breaks)
    /\ hre' = [hre EXCEPT !.read = Some(UnwrapPanicked)]
    /\ UNCHANGED notHre

\* lines 593-713: the document is converted
DeserializeHreProblem ==
    /\ hre.document.some
    /\ ~hre.read.some
    /\ hre.document.v.well_formed
    /\ breaks_have_times(hre.document.v.breaks)
    /\ hre' = [hre EXCEPT !.read =
                   Some(Ok([relations |->
                               to_pragmatic_relations(hre.document.v.relations),
                            breaks |->
                               to_pragmatic_breaks(hre.document.v.breaks)]))]
    /\ UNCHANGED notHre

HreNext ==
    \/ SerializeHreProblem
    \/ DeserializeMalformed
    \/ DeserializeBreakWithoutTimes
    \/ DeserializeHreProblem

HreSpec == HreInit /\ [][HreNext]_vars

----------------------------------------------------------------------------
(* The geojson serializer: serialize_solution_as_geojson writes a marker   *)
(* for every stop of every tour, coloured by get_color_inverse, and then a *)
(* line for every tour, coloured by get_color. A solution is its number of *)
(* tours and the number of stops of each tour.                             *)

\* get_color_list, lines 136-141
get_color_list ==
    <<"#e6194b", "#3cb44b", "#4363d8", "#f58231", "#911eb4", "#46f0f0",
      "#f032e6", "#bcf60c", "#008080", "#e6beff", "#9a6324", "#800000",
      "#808000", "#000075", "#808080">>

\* the slice's get: indices count from 0
COLOR_LIST_get(idx) ==
    IF idx < Len(get_color_list) THEN Some(get_color_list[idx + 1]) ELSE None

\* a - b in usize where the build does not check for overflow
usize_wrapping_sub(a, b) == (a - b + 2^UsizeBits) % 2^UsizeBits

\* get_color, lines 108-114: the colour looked up; its unwrap is the
\* caller's step
get_color(idx) == COLOR_LIST_get(idx % Len(get_color_list))

\* line 119: COLOR_LIST.len() - idx is below zero
inverse_underflows(idx) == idx > Len(get_color_list)

\* get_color_inverse, lines 116-122; the subtraction wraps here, and panics
\* in GetColorInverseUnderflowPanics
get_color_inverse(idx) ==
    COLOR_LIST_get(
        usize_wrapping_sub(Len(get_color_list), idx) % Len(get_color_list))

GeoInit ==
    /\ RunIdle
    /\ TermIdle
    /\ EvalIdle
    /\ BuildIdle
    /\ ChunkIdle
    /\ RuinIdle
    /\ SeedIdle
    /\ HreIdle
    /\ \E n \in 0..MaxTours, k \in 1..MaxStops :
          geo = [tours |-> n, stops |-> k, phase |-> "stop_markers",
                 tour_idx |-> 0, stop_idx |-> 0, stop_markers |-> <<>>,
                 stop_lines |-> <<>>]

\* lines 84-92: the marker of the next stop, coloured by get_color_inverse
StopMarker ==
    /\ geo # None
    /\ geo.phase = "stop_markers"
    /\ geo.tour_idx < geo.tours
    /\ LET color == get_color_inverse(geo.tour_idx)
           last == geo.stop_idx + 1 = geo.stops
       IN  geo' = IF ~color.some
                  THEN [geo EXCEPT !.phase = "panicked"]
                  ELSE [geo EXCEPT
                           !.stop_markers = Append(@, color.v),
                           !.stop_idx = IF last THEN 0 ELSE @ + 1,
                           !.tour_idx = IF last THEN @ + 1 ELSE @]
    /\ UNCHANGED notGeo

\* line 119: in a build that checks for overflow the subtraction panics
GetColorInverseUnderflowPanics ==
    /\ geo # None
    /\ geo.phase = "stop_markers"
    /\ geo.tour_idx < geo.tours
    /\ inverse_underflows(geo.tour_idx)
    /\ geo' = [geo EXCEPT !.phase = "panicked"]
    /\ UNCHANGED notGeo

\* line 93: the markers are collected
StopMarkersCollected ==
    /\ geo # None
    /\ geo.phase = "stop_markers"
    /\ geo.tour_idx = geo.tours
    /\ geo' = [geo EXCEPT !.phase = "stop_lines", !.tour_idx = 0]
    /\ UNCHANGED notGeo

\* lines 95-99: the line of the next tour, coloured by get_color
TourLine ==
    /\ geo # None
    /\ geo.phase = "stop_lines"
    /\ geo.tour_idx < geo.tours
    /\ LET color == get_color(geo.tour_idx)
       IN  geo' = IF ~color.some
                  THEN [geo EXCEPT !.phase = "panicked"]
                  ELSE [geo EXCEPT !.stop_lines = Append(@, color.v),
                                   !.tour_idx = @ + 1]
    /\ UNCHANGED notGeo

\* lines 100-105: the features are written
FeaturesWritten ==
    /\ geo # None
    /\ geo.phase = "stop_lines"
    /\ geo.tour_idx = geo.tours
    /\ geo' = [geo EXCEPT !.phase = "written"]
    /\ UNCHANGED notGeo

GeoNext ==
    \/ StopMarker
    \/ GetColorInverseUnderflowPanics
    \/ StopMarkersCollected
    \/ TourLine
    \/ FeaturesWritten

GeoSpec == GeoInit /\ [][GeoNext]_vars

----------------------------------------------------------------------------
(* Properties of the generational loop and of MaxGeneration.               *)

\* C1: every generation starts from the check at the top of the loop, and
\* only when neither the termination criterion holds nor the quota is
\* reached; when one of them holds the loop exits and that iteration
\* performs no selection, diversify, search or on_generation.
C1_CheckedAtGenerationStart ==
    [][/\ (pc' = "select" /\ pc # "select") =>
            /\ pc = "check"
            /\ ~is_termination(generation, limit)
            /\ ~quota_reached(quota, clock)
       /\ (pc = "check" /\ (is_termination(generation, limit)
                              \/ quota_reached(quota, clock))) =>
            /\ pc' \in {"check", "done"}
            /\ calls' = calls
            /\ on_generation_args' = on_generation_args
            /\ generation' = generation
       /\ pc = "done" =>
            /\ pc' = "done"
            /\ calls' = calls
            /\ generation' = generation]_vars

\* the loop was left on the quota alone, after at least one generation
C1_Witness ==
    /\ pc = "done"
    /\ is_quota_reached
    /\ ~is_terminated
    /\ calls.total > 0

\* C7: a finished generation has called search once, diversify once unless
\* the phase was Exploitation (then never, and the diverse offspring is
\* empty), and has handed on_generation the search offspring followed by
\* the diverse offspring.
C7_OneSearchOneDiversify ==
    (pc \in {"check", "done"} /\ on_generation_args.some) =>
        /\ calls.gen.search = 1
        /\ calls.gen.diversify = (IF calls.phase = "Exploitation" THEN 0 ELSE 1)
        /\ (calls.phase = "Exploitation" => diverse_offspring = <<>>)
        /\ \A i \in 1..Len(search_offspring) : search_offspring[i] = "search"
        /\ \A i \in 1..Len(diverse_offspring) : diverse_offspring[i] = "diversify"
        /\ on_generation_args.v.offspring = search_offspring \o diverse_offspring

\* a generation outside Exploitation whose two offspring are both non-empty
C7_Witness ==
    /\ pc = "check"
    /\ on_generation_args.some
    /\ calls.phase # "Exploitation"
    /\ Len(search_offspring) > 0
    /\ Len(diverse_offspring) > 0

\* C8: with MaxGeneration(limit) and a counter that on_generation increments
\* from 0, a run that is not stopped by the quota executes exactly `limit`
\* generations (none for limit = 0) and then returns; the criterion is
\* generation >= limit and stays true once true.
C8_ExactlyLimitGenerations ==
    /\ []((pc = "done" /\ ~is_quota_reached) =>
              (generation = limit /\ calls.total = limit))
    /\ [](calls.total <= limit /\ generation <= limit)
    /\ [](is_termination(generation, limit) <=> generation >= limit)
    /\ [][is_termination(generation, limit) =>
              is_termination(generation', limit')]_vars
    /\ <>(pc = "done")

\* a run that ended on the generation limit after several generations
C8_Witness ==
    /\ pc = "done"
    /\ ~is_quota_reached
    /\ is_terminated
    /\ calls.total >= 2

F64IsOne(x) == x.k = "fin" /\ x.n = x.d

\* C9: the estimate is generation/limit capped at 1: it lies in [0,1] for
\* every generation and limit (limit = 0 included), does not decrease when
\* the generation grows, and is 1 exactly when is_termination is true.
C9_EstimateInUnitInterval ==
    term.some =>
        LET e == term.v.estimate
            g == term.v.generation
            l == term.v.limit
        IN  /\ e.k = "fin"
            /\ e.d > 0
            /\ 0 <= e.n
            /\ e.n <= e.d
            /\ (g < l => e.n * l = g * e.d)
            /\ (F64IsOne(e) <=> term.v.is_termination)
            /\ (term.v.is_termination <=> g >= l)
            /\ (term.v.previous.some =>
                   /\ term.v.previous.v.estimate.k = "fin"
                   /\ F64Le(term.v.previous.v.estimate, e)
                   /\ (term.v.previous.v.is_termination => term.v.is_termination))

\* the criterion with limit 0 polled after the generation counter has grown
C9_Witness ==
    /\ term.some
    /\ term.v.limit = 0
    /\ term.v.generation >= 1
    /\ term.v.previous.some

----------------------------------------------------------------------------
(* Properties of the insertion evaluator.                                  *)

C3_TripleOfOneCandidate ==
    /\ (job.kind = "Single" /\ single_ctx.some
            /\ SingleContext_is_success(single_ctx.v)) =>
          \E c \in seen :
              /\ c.leg = single_ctx.v.index
              /\ c.place = single_ctx.v.place.v
              /\ single_ctx.v.cost = Some(c.costs)
    /\ (acc # None /\ acc.kind = "Success" /\ job.kind = "Single") =>
          /\ Len(acc.activities) = 1
          /\ acc.route \in 1..routes.count
          /\ (route.some /\ acc.route = route.v.no) =>
                \E c \in seen :
                    /\ c.leg = acc.activities[1].index
                    /\ c.place = acc.activities[1].place
                    /\ acc.cost = route.v.route_costs + c.costs

\* a Success of the route just evaluated, whose scan a stopped violation
\* ended after the candidate was found
C3_Witness ==
    /\ job.kind = "Single"
    /\ epc = "select"
    /\ route.some
    /\ acc.kind = "Success"
    /\ acc.route = route.v.no
    /\ single_ctx.some
    /\ single_ctx.v.violation.some
    /\ single_ctx.v.violation.v.stopped

\* C4: among the legal candidates of equal lowest cost the one found first
\* in the scan order (route, leg, place, time window) is returned.
C4_FirstFoundWins ==
    (epc \in {"select", "done"} /\ acc.kind = "Success") =>
        /\ best.found.some
        /\ acc.cost = best.found.v.cost
        /\ acc.route = best.found.v.route
        /\ acc.activities = best.found.v.activities

\* a later route has a legal candidate of the same total cost as the result,
\* which an earlier route gave
C4_Witness ==
    /\ job.kind = "Single"
    /\ epc = "done"
    /\ acc.kind = "Success"
    /\ route.some
    /\ acc.route < route.v.no
    /\ \E c \in seen : c.costs + route.v.route_costs = acc.cost

----------------------------------------------------------------------------
(* Properties of the insertion evaluator for a Multi job.                  *)

\* the sub-tasks of the activities, in the emitted order
services_of(activities) == [k \in 1..Len(activities) |-> activities[k].job]

\* the activities place every sub-task of one declared permutation, in order
IsWholePermutation(activities) ==
    \E p \in 1..Len(job.permutations) :
        services_of(activities) = job.permutations[p]

\* the sub-tasks of the Multi job that the tour holds
marks_of(tour) == SelectSeq(tour, LAMBDA a : a # 0)

\* C5: a Success for a Multi job, and every intermediate best of
\* evaluate_multi, carries one activity for each sub-task of one declared
\* permutation, in that permutation's order and in one route; a sequence
\* under construction carries a prefix of the current permutation, and a
\* sequence in which a sub-task could not be inserted carries no activities
\* and no cost.
C5_AllSubTasksOrNone ==
    /\ (job.kind = "Multi" /\ acc.kind = "Success") =>
          /\ IsWholePermutation(acc.activities)
          /\ acc.route \in 1..routes.count
    /\ (job.kind = "Multi" /\ multi.some) =>
          /\ multi.v.acc_res.activities.some =>
                IsWholePermutation(multi.v.acc_res.activities.v)
          /\ (multi.v.out.some /\ multi.v.out.v.activities.some) =>
                IsWholePermutation(multi.v.out.v.activities.v)
          /\ (multi.v.in1.some /\ multi.v.in1.v.violation.some) =>
                /\ ~multi.v.in1.v.activities.some
                /\ ~multi.v.in1.v.cost.some
          /\ (epc \in {"service", "scan", "service_result"}
                /\ multi.v.in1.v.activities.some) =>
                services_of(multi.v.in1.v.activities.v) =
                    SubSeq(job.permutations[multi.v.perm], 1,
                           multi.v.service - 1)

\* an attempt from a later start index placed one sub-task in the shadow and
\* failed on the next one, while the best of the permutation stays the whole
\* sequence found from an earlier start index
C5_Witness ==
    /\ job.kind = "Multi"
    /\ epc = "start_index"
    /\ MultiContext_is_success(multi.v.out.v)
    /\ Len(multi.v.out.v.activities.v) = 2
    /\ multi.v.in1.v.violation.some
    /\ Len(marks_of(multi.v.shadow.tour)) = 1

\* C6: in a Success for a Multi job the insert indices never decrease along
\* the emitted sequence; each sub-task is searched on the legs from
\* next_index on, which lies past the sub-task inserted before it, so the
\* tour holds the sub-tasks in the emitted order.
C6_IndicesNeverDecrease ==
    /\ (job.kind = "Multi" /\ acc.kind = "Success") =>
          \A k \in 1..(Len(acc.activities) - 1) :
              acc.activities[k].index <= acc.activities[k + 1].index
    /\ (job.kind = "Multi" /\ epc \in {"service", "scan", "service_result"}) =>
          LET in1 == multi.v.in1.v
          IN  /\ (epc \in {"scan", "service_result"}) =>
                    single_ctx.v.index >= in1.next_index
              /\ (epc = "scan") => cursor.v.leg >= in1.next_index
              /\ in1.activities.some =>
                    /\ in1.next_index >
                           in1.activities.v[Len(in1.activities.v)].index
                    /\ \A k \in 1..(Len(in1.activities.v) - 1) :
                           in1.activities.v[k].index <
                               in1.activities.v[k + 1].index
                    /\ marks_of(multi.v.shadow.tour) =
                           services_of(in1.activities.v)

\* a Success with the two sub-tasks of the second permutation, the second
\* one not on the leg next to the first
C6_Witness ==
    /\ job.kind = "Multi"
    /\ epc = "done"
    /\ acc.kind = "Success"
    /\ Len(acc.activities) = 2
    /\ services_of(acc.activities) = <<2, 1>>
    /\ acc.activities[2].index > acc.activities[1].index + 1

----------------------------------------------------------------------------
(* Properties of the builders.                                             *)

\* build() returned a configuration
IsBuilt == bpc = "built" /\ built.v.ok

\* none of max_generations, max_time and the variation criterion is set
NothingConfigured ==
    /\ ~builder.self.max_generations.some
    /\ ~builder.self.max_time.some
    /\ IF builder.type = "Builder"
       THEN ~builder.self.cost_variation.some
       ELSE ~builder.self.min_cv.some

\* the quota the built configuration hands to the run
built_quota ==
    IF builder.type = "Builder" THEN built.v.ctx.quota
    ELSE built.v.ctx.environment.quota

\* C10: when none of max_generations, max_time and the variation criterion
\* is configured, build() of either builder yields the composite
\* termination of MaxGeneration(3000) and MaxTime(300), and the built quota
\* is Some: a TimeQuota of 300 seconds.
C10_DefaultTerminationAndQuota ==
    (IsBuilt /\ NothingConfigured) =>
        /\ built.v.ctx.termination =
               CompositeTermination_new(
                   <<MaxGeneration_new(DefaultMaxGenerations),
                     MaxTime_new(DefaultMaxTime)>>)
        /\ built_quota = Some(TimeQuota_new(DefaultMaxTime))

\* the solver Builder built with nothing configured
C10_Witness ==
    /\ IsBuilt
    /\ NothingConfigured
    /\ builder.type = "Builder"
    /\ builder.self = Builder_new

\* the criteria of the built composite termination
built_criterias ==
    {built.v.ctx.termination.terminations[i] :
        i \in 1..Len(built.v.ctx.termination.terminations)}

\* C11: whenever max_time = Some(T) is configured, the configuration built
\* by the EvolutionConfigBuilder contains a MaxTime(T) criterion and its
\* environment exposes a TimeQuota with limit T, whatever the other calls
\* were, with_environment included.
C11_MaxTimeQuotaExposed ==
    (IsBuilt /\ builder.type = "EvolutionConfigBuilder"
        /\ builder.self.max_time.some) =>
        /\ MaxTime_new(builder.self.max_time.v) \in built_criterias
        /\ built.v.ctx.environment.quota =
               Some(TimeQuota_new(builder.self.max_time.v))

\* a configuration built with max_time set and a supplied environment
\* that has no quota
C11_Witness ==
    /\ IsBuilt
    /\ builder.type = "EvolutionConfigBuilder"
    /\ builder.self.max_time.some
    /\ builder.self.environment = Some([quota |-> None])

\* the configuration errors of the EvolutionConfigBuilder
UnknownIntervalType ==
    builder.self.min_cv.some /\ builder.self.min_cv.v \notin {"sample", "period"}
MissingHeuristic ==
    /\ ~builder.self.heuristic.some
    /\ (~builder.self.heuristic_operators.some
            \/ ~builder.self.heuristic_group.some)
MissingPopulation == ~builder.self.population.some

supplied_termination ==
    IF builder.type = "Builder"
    THEN (IF builder.self.config.termination = CustomTermination
          THEN Some(CustomTermination) ELSE None)
    ELSE builder.self.termination

\* C13: a termination supplied with with_termination(t) is the termination
\* of the built configuration, for both builders.
C13_SuppliedTerminationUsed ==
    (IsBuilt /\ supplied_termination.some) =>
        built.v.ctx.termination = supplied_termination.v

\* the solver Builder built after with_termination and nothing else
C13_Witness ==
    /\ IsBuilt
    /\ builder.type = "Builder"
    /\ supplied_termination.some
    /\ NothingConfigured

----------------------------------------------------------------------------
(* Properties of get_removal_chunk_size.                                   *)

\* floor of a finite value that is not negative
F64Floor(x) == F64Fin(x.n \div x.d, 1)

\* floor(assigned * threshold)
floor_of_share(c) ==
    f64_as_usize(F64Floor(F64Mul(usize_as_f64(assigned_of(c)), c.limit.threshold)))

\* clamp(u, 0, hi)
clamp_to(u, hi) == IF u < 0 THEN 0 ELSE IF u > hi THEN hi ELSE u

\* C14: for every assigned count, min <= max and threshold the call returns
\* clamp(u, 0, floor(assigned * threshold)) for some u of [min, max]: the
\* result exceeds neither floor(assigned * threshold) nor max, and is not
\* negative.
C14_ChunkIsClampedDraw ==
    (chunk.some /\ chunk.v.result.some
        /\ chunk.v.limit.min <= chunk.v.limit.max) =>
        /\ chunk.v.result.v.kind = "returned"
        /\ chunk.v.result.v.size >= 0
        /\ chunk.v.result.v.size <= chunk.v.limit.max
        /\ chunk.v.result.v.size <= floor_of_share(chunk.v)
        /\ \E u \in chunk.v.limit.min..chunk.v.limit.max :
               chunk.v.result.v.size = clamp_to(u, floor_of_share(chunk.v))

\* a call whose limits fit i32, with a share of the assigned jobs that is
\* half a job
C14_Witness ==
    /\ chunk.some
    /\ chunk.v.result.some
    /\ chunk.v.result.v.kind = "returned"
    /\ chunk.v.limit.min = 1
    /\ chunk.v.limit.max = 2
    /\ assigned_of(chunk.v) = 2
    /\ chunk.v.limit.threshold = F64Fin(1, 4)

\* C15: with threshold = 0.0 the chunk size is 0 for every min and max,
\* usize::MAX included, and every number of assigned jobs.
C15_ZeroThresholdRemovesNothing ==
    (chunk.some /\ chunk.v.result.some
        /\ chunk.v.limit.threshold = F64Fin(0, 1)) =>
        chunk.v.result.v = Returned(0)

\* a call with threshold 0.0 and the unbounded max
C15_Witness ==
    /\ chunk.some
    /\ chunk.v.result.some
    /\ chunk.v.limit.threshold = F64Fin(0, 1)
    /\ chunk.v.limit.max = UsizeMax
    /\ assigned_of(chunk.v) > 0

----------------------------------------------------------------------------
(* Properties of CompositeRuin::run.                                       *)

\* the places of the picked group whose probability exceeds their draw, in
\* the order of the list, up to the place n
RECURSIVE triggered_upto(_)
triggered_upto(n) ==
    IF n = 0 THEN <<>>
    ELSE LET before == triggered_upto(n - 1)
             group == composite.ruins[ruining.v.index]
         IN  IF group[n] > ruining.v.draws[n]
             THEN Append(before, <<ruining.v.index, n>>)
             ELSE before

\* C16: run picks one group, of a weight that is not zero, and runs on the
\* accumulating solution exactly the ruins of that group whose probability
\* exceeds their own fresh draw from [0, 1), in the order of the list; no
\* ruin of another group runs, a ruin with probability 0 never runs and one
\* with probability 1 always runs; a solution without routes is returned
\* unchanged and no ruin runs.
C16_OneGroupInOrder ==
    /\ (rpc # "idle" /\ insertion_ctx.routes = 0) =>
          /\ insertion_ctx.ruined = <<>>
          /\ ~insertion_ctx.restored
          /\ ruining = None
    /\ (rpc \in {"fold", "returned"} /\ ruining.some) =>
          /\ composite.weights[ruining.v.index] > 0
          /\ Len(ruining.v.draws) = ruining.v.next - 1
          /\ insertion_ctx.ruined = triggered_upto(Len(ruining.v.draws))
          /\ \A i \in 1..Len(insertion_ctx.ruined) :
                 /\ insertion_ctx.ruined[i][1] = ruining.v.index
                 /\ composite.ruins[ruining.v.index][insertion_ctx.ruined[i][2]] # 0
          /\ \A n \in 1..Len(ruining.v.draws) :
                 composite.ruins[ruining.v.index][n] = DrawSteps =>
                     \E i \in 1..Len(insertion_ctx.ruined) :
                         insertion_ctx.ruined[i] = <<ruining.v.index, n>>
          /\ (rpc = "returned") =>
                 Len(ruining.v.draws) = Len(composite.ruins[ruining.v.index])

\* the second group was picked; its first ruin, of probability 0, drew 0
\* and did not run, its second ruin ran
C16_Witness ==
    /\ rpc = "returned"
    /\ ruining.some
    /\ ruining.v.index = 2
    /\ Len(composite.ruins[1]) > 0
    /\ composite.ruins[2] = <<0, 1>>
    /\ ruining.v.draws = <<0, 0>>
    /\ insertion_ctx.ruined = << <<2, 2>> >>

----------------------------------------------------------------------------
(* Properties of the evaluator at its edges.                               *)

\* the Concrete index lies beyond the legs of every route
ConcreteBeyondTour == position.kind = "Concrete" /\ position.idx >= MaxLegs

\* C17: with the position Concrete(i), i beyond the legs of the tour and up
\* to usize::MAX, the evaluator returns a Failure and neither panics nor
\* overflows, for Single and Multi jobs.
C17_ConcreteBeyondTourFails ==
    (epc # "idle" /\ ConcreteBeyondTour) =>
        /\ epc # "panicked"
        /\ acc.kind = "Failure"
        /\ (epc = "start_index" /\ multi.some) =>
               ~promote_overflows(multi.v.out.v, multi.v.acc_res)

\* a Multi job with Concrete(usize::MAX): the promote overflowed
C17_Witness ==
    /\ epc = "panicked"
    /\ job.kind = "Multi"
    /\ position = [kind |-> "Concrete", idx |-> UsizeMax]

\* the InsertionResult of the route under evaluation, when its scan is over
route_result ==
    IF epc = "result"
    THEN evaluate_single_result(single_ctx.v, route.v.route_costs, route.v.no)
    ELSE evaluate_multi_result(multi.v.acc_res, route.v.route_costs, route.v.no)

\* the code of the latest violation of the scan, 0 without a violation
latest_code == IF encountered.violation.some THEN encountered.violation.v ELSE 0

\* the scan of the route is over and none of its candidates was legal
NothingLegal == epc \in {"result", "multi_result"} /\ ~encountered.legal

\* C18: when no insertion of the job into the route is legal, the Failure
\* carries the code of the latest hard violation of the scan, and code 0 only
\* when the scan met no violation; for Single and Multi jobs, with or without
\* a best known alternative.
C18_FailureCarriesLatestCode ==
    NothingLegal =>
        /\ route_result.kind = "Failure"
        /\ route_result.code = latest_code

\* a Multi job whose candidates were all refused, evaluated with a best known
\* alternative
C18_Witness ==
    /\ NothingLegal
    /\ job.kind = "Multi"
    /\ encountered.violation.some
    /\ acc.kind = "Success"

----------------------------------------------------------------------------
(* Properties of the run with panicking operators.                         *)

\* C19: a panic of search or diversify does not abort Iterative::run: the
\* driver goes on with an empty offspring of that operator, so that
\* on_generation is still called and the next generation follows.
C19_PanicIsEmptyOffspring ==
    [][/\ (pc = "diversify_panicked" /\ pc' # pc) =>
              (pc' = "search" /\ diverse_offspring' = <<>>)
       /\ (pc = "search_panicked" /\ pc' # pc) =>
              (pc' = "on_generation" /\ search_offspring' = <<>>)]_vars

\* the search operator panicked in a generation and the run is left
C19_Witness ==
    /\ pc = "aborted"
    /\ calls.gen.search = 1
    /\ generation < limit

----------------------------------------------------------------------------
(* Properties of the seed of the solver Builder.                           *)

\* the Random handles the built solver holds: the one of its config and
\* those of the individuals of the initial population
built_randoms ==
    {built.v.ctx.random}
    \cup {built.v.ctx.individuals[i].random :
              i \in 1..Len(built.v.ctx.individuals)}

\* C20: with a seed s set by with_seed(Some(s)), every random source of
\* the built solver is derived from s, the Random of the individuals given
\* through with_init_solutions included, in whatever order the builder was
\* called.
C20_EveryRandomIsSeeded ==
    (IsBuilt /\ builder.type = "Builder" /\ builder.self.seed.some) =>
        \A random \in built_randoms :
            random = DefaultRandom_new_with_seed(builder.self.seed.v)

\* a solver built with a seed and with initial solutions
C20_Witness ==
    /\ IsBuilt
    /\ builder.type = "Builder"
    /\ builder.self.seed.some
    /\ Len(built.v.ctx.individuals) > 0

----------------------------------------------------------------------------
(* Properties of the pruning and of the scan of one route.                 *)

\* the step takes the next route, which passed the hard route constraint,
\* while the fold holds a Success
TakesRouteWithAlternative ==
    /\ epc = "select"
    /\ acc.kind = "Success"
    /\ route'.some
    /\ route' # route

\* the step returns the alternative and analyzes no candidate of the route
RoutePruned ==
    /\ epc' = "select"
    /\ acc' = acc
    /\ cursor' = None
    /\ multi' = None
    /\ encountered' = NothingEncountered

SingleCandidateRefused ==
    /\ epc = "scan"
    /\ job.kind = "Single"
    /\ cursor' # cursor
    /\ seen' = seen

\* ... refused with stopped = true, resp. stopped = false
RefusedWithStop ==
    SingleCandidateRefused /\ single_ctx'.v.violation.v.stopped
RefusedWithoutStop ==
    SingleCandidateRefused /\ ~single_ctx'.v.violation.v.stopped

\* the candidate that follows the one under analysis in the scan order
following_candidate ==
    next_candidate(job.places, route.v.legs,
                   get_insertion_index(route.v.legs, position), cursor.v)

\* the scan of the route ends with this step
ScanAborted == epc' = "result" /\ cursor' = None

\* what evaluate_single makes of the context the step leaves
result_after_step ==
    evaluate_single_result(single_ctx'.v, route.v.route_costs, route.v.no)

\* a refusal without stop only rejects the candidate: the scan goes on with
\* the following candidate, and ends only when there is none
ScanContinues ==
    /\ cursor' = following_candidate
    /\ epc' = IF following_candidate.some THEN "scan" ELSE "result"

\* C24 (as stated): in the scan for a Single job a violation with stopped =
\* true aborts the route: no later candidate is evaluated and the route's
\* result is a Failure with the violation's code; a violation with stopped =
\* false rejects only the candidate and the scan continues.
C24_StoppedFailsTheRoute ==
    [][/\ RefusedWithStop =>
              /\ ScanAborted
              /\ result_after_step =
                     Failure(single_ctx'.v.violation.v.code)
       /\ RefusedWithoutStop => ScanContinues]_vars

\* C24 (amended): a violation with stopped = true ends the scan of the
\* route; the result is a Failure with the violation's code when no earlier
\* candidate of the route was accepted, and otherwise the Success of the
\* accepted candidate. A violation with stopped = false rejects only the
\* candidate and the scan continues.
C24_StoppedEndsTheScan ==
    [][/\ RefusedWithStop =>
              /\ ScanAborted
              /\ encountered'.violation = Some(single_ctx'.v.violation.v.code)
              /\ result_after_step =
                     IF single_ctx.v.place.some
                     THEN Success(single_ctx.v.cost.v + route.v.route_costs,
                              <<ActivityAt(0, single_ctx.v.place.v,
                                           single_ctx.v.index)>>,
                              route.v.no)
                     ELSE Failure(single_ctx'.v.violation.v.code)
       /\ RefusedWithoutStop => ScanContinues]_vars

\* a stopped violation ended the scan of a route with two legs at its first
\* candidate, and the route failed with the code
C24_Witness ==
    /\ epc = "result"
    /\ job.kind = "Single"
    /\ position.kind = "Any"
    /\ route.v.legs = 2
    /\ single_ctx.v.violation.some
    /\ single_ctx.v.violation.v.stopped
    /\ ~single_ctx.v.place.some
    /\ cursor = None

----------------------------------------------------------------------------
(* Properties of the ShadowContext of evaluate_multi.                      *)

\* C25: evaluate_multi never changes the RouteContext it is given; the
\* shadow shares the original until its first insert, makes its deep copy at
\* most once, before that insert, and every later insert and removal
\* touches the copy only.
C25_OriginalNeverMutated ==
    multi.some =>
        /\ multi.v.original = tour_of(route.v.legs)
        /\ multi.v.shadow.copies <= 1
        /\ multi.v.shadow.shared <=> ~multi.v.shadow.is_mutated
        /\ multi.v.shadow.shared => multi.v.shadow.tour = multi.v.original
        /\ multi.v.shadow.copies = 0 <=> multi.v.shadow.shared

\* evaluate_multi is about to return, and the last shadow holds sub-tasks
\* the original route does not have
C25_Witness ==
    /\ epc = "multi_result"
    /\ multi.v.shadow.copies = 1
    /\ Len(multi.v.shadow.tour) > Len(multi.v.original)
    /\ multi.v.original = tour_of(route.v.legs)

\* the step begins a sequence attempt with a shadow that was never mutated
RestoreOfCleanShadow ==
    /\ epc = "start_index"
    /\ epc' = "service"
    /\ ~multi.v.shadow.is_mutated

\* C26: every sequence attempt of evaluate_multi begins with a shadow tour
\* that holds no activity of the Multi job; after every insert and restore
\* accept_route_state has run before a constraint reads the route state; and
\* restore does nothing to a shadow that was never mutated.
C26_ShadowCleanAndAccepted ==
    /\ [](/\ (epc = "service" /\ multi.v.service = 1) =>
                 remove_job(multi.v.shadow.tour) = multi.v.shadow.tour
          /\ (epc \in {"scan", "service", "service_result"} /\ multi.some) =>
                 multi.v.shadow.accepted)
    /\ [][RestoreOfCleanShadow => multi'.v.shadow = multi.v.shadow]_vars

\* a sequence attempt begins after a restore that removed a sub-task of an
\* earlier attempt
C26_Witness ==
    /\ epc = "service"
    /\ multi.v.service = 1
    /\ multi.v.shadow.is_dirty
    /\ multi.v.out.v.start_index > multi.v.insertion_idx
    /\ multi.v.shadow.tour = multi.v.original

----------------------------------------------------------------------------
(* Termination of the start-index loop of evaluate_multi.                  *)

\* the step ends one iteration of the loop over the start indices and
\* begins the next
NextStartIndex ==
    /\ epc \in {"service", "service_result"}
    /\ epc' = "start_index"

\* the start index grows from one iteration to the next
StartIndexGrows ==
    [][NextStartIndex =>
          multi'.v.out.v.start_index > multi.v.out.v.start_index]_vars

\* an attempt is made only from a start index within the route's activities
AttemptWithinTour ==
    (epc \in {"service", "scan", "service_result"} /\ multi.some) =>
        multi.v.out.v.start_index <= activity_count(tour_of(route.v.legs))

\* C27: the loop over the start indices terminates: promote strictly
\* increases start_index on every iteration, the loop stops as soon as
\* start_index exceeds the activity count or a stopped violation is
\* recorded, and evaluate_multi returns for every input.
C27_StartIndexLoopTerminates ==
    /\ StartIndexGrows
    /\ []AttemptWithinTour
    /\ [](epc # "panicked")

\* the loop growing and stopping, without the claim that the call returns
C27_LoopVariant == StartIndexGrows /\ []AttemptWithinTour

\* the loop of a permutation went through every start index of a route
\* with two legs and stopped beyond the last one
C27_Witness ==
    /\ epc = "start_index"
    /\ job.kind = "Multi"
    /\ route.v.legs = 2
    /\ multi.v.insertion_idx = 0
    /\ multi.v.out.v.start_index = 2
    /\ ~multi.v.out.v.cost.some

----------------------------------------------------------------------------
(* Properties of select_seed_job.                                          *)

\* no value occurs twice in the sequence
NoRepeats(seq) ==
    \A i, j \in 1..Len(seq) : seq[i] = seq[j] => i = j

\* some route of the solution has a job
SomeRouteHasJob ==
    \E r \in 1..Len(seeding.routes) : has_jobs(seeding.routes[r])

\* the seed is a job of an activity of the route it names
SeedIsOfItsRoute ==
    LET seed == seeding.result.v.v
        tour == seeding.routes[seed.ri + 1]
    IN  /\ seed.job # 0
        /\ \E i \in 1..Len(tour) : tour[i] = seed.job

\* what select_seed_job returns, and how it scans
SeedSelected ==
    /\ NoRepeats(seeding.visited)
    /\ NoRepeats(seeding.probed)
    /\ spc = "returned" =>
          /\ seeding.result.v.some <=> SomeRouteHasJob
          /\ seeding.result.v.some => SeedIsOfItsRoute

\* C28: select_seed_job returns Some((ri, job)), job being carried by an
\* activity of routes[ri], whenever some route has a job, and None only
\* when there are no routes or no route has a job; the cyclic scans visit
\* every route and every activity index of a tour at most once, and the
\* selection terminates.
C28_SeedFoundWheneverThereIsOne ==
    /\ [](spc # "idle" => SeedSelected)
    /\ <>(spc = "returned")

\* the seed was found in the second route visited, after the scan of its
\* tour had wrapped around to the start
C28_Witness ==
    /\ spc = "returned"
    /\ seeding.result.v.some
    /\ Len(seeding.visited) = 2
    /\ Len(seeding.probed) = 3
    /\ seeding.probed[2] = 0

----------------------------------------------------------------------------
(* Properties of the HRE adapter.                                          *)

\* deserialize_hre_problem has returned or panicked
HreRead == hre # None /\ hre.read.some

\* an Err(FormatError) with the code "E0000", a message and a hint
IsFormatError(outcome) ==
    /\ outcome # UnwrapPanicked
    /\ ~outcome.ok
    /\ outcome.ctx.code = "E0000"
    /\ outcome.ctx.message # ""
    /\ outcome.ctx.hint # ""

\* C22: deserialize_hre_problem never panics and reports what it cannot
\* convert as Err(FormatError) with the code "E0000", a message and a hint:
\* for malformed JSON and for every schema-valid document, breaks with an
\* empty `times` list included.
C22_ErrorsAreFormatErrors ==
    HreRead =>
        /\ hre.read.v # UnwrapPanicked
        /\ ~hre.document.v.well_formed => IsFormatError(hre.read.v)
        /\ hre.document.v.well_formed =>
               (hre.read.v.ok \/ IsFormatError(hre.read.v))

\* a schema-valid document with a break without times was read
C22_Witness ==
    /\ HreRead
    /\ hre.document.v.well_formed
    /\ hre.document.v.breaks.some
    /\ \E i \in 1..Len(hre.document.v.breaks.v) :
           hre.document.v.breaks.v[i] = <<>>

\* a relation was written by convert_to_hre and read back
RoundTripDone == HreRead /\ hre.problem.some

\* C29: a pragmatic relation converted to the HRE format and read back is
\* the same relation: the type mappings are inverse to each other, and the
\* jobs, vehicle_id and shift_index are preserved.
C29_RelationRoundTrip ==
    RoundTripDone =>
        /\ hre.read.v.ok
        /\ hre.read.v.ctx.relations = Some(<<hre.problem.v>>)

\* the round trip without the shift index: type, jobs and vehicle_id
C29_RoundTripButShiftIndex ==
    RoundTripDone =>
        /\ hre.read.v.ok
        /\ Len(hre.read.v.ctx.relations.v) = 1
        /\ LET back == hre.read.v.ctx.relations.v[1]
           IN  /\ back.type_field = hre.problem.v.type_field
               /\ back.jobs = hre.problem.v.jobs
               /\ back.vehicle_id = hre.problem.v.vehicle_id
               /\ back.shift_index = None

\* a relation with a shift index went through the round trip
C29_Witness ==
    /\ RoundTripDone
    /\ hre.problem.v.shift_index.some
    /\ hre.problem.v.type_field = "Strict"

----------------------------------------------------------------------------
(* Properties of the geojson serializer.                                   *)

Colors == {get_color_list[i] : i \in 1..Len(get_color_list)}

ColorsOfTheList ==
    /\ \A i \in 1..Len(geo.stop_markers) : geo.stop_markers[i] \in Colors
    /\ \A i \in 1..Len(geo.stop_lines) : geo.stop_lines[i] \in Colors

\* C30: get_color and get_color_inverse give a colour of the list of 15 for
\* every tour index, without an underflow and without an access out of
\* range: every tour of a solution gets its colours, however many tours the
\* solution has, 16 or more included.
C30_EveryTourIsColoured ==
    geo # None =>
        /\ geo.phase # "panicked"
        /\ ColorsOfTheList
        /\ geo.phase = "written" =>
               /\ Len(geo.stop_markers) = geo.tours * geo.stops
               /\ Len(geo.stop_lines) = geo.tours

\* what holds of the colours: those given are of the list, get_color gives
\* one for every index, and get_color_inverse for every index up to 15
C30_ColouredUpToSixteenTours ==
    geo # None =>
        /\ ColorsOfTheList
        /\ geo.phase = "panicked" =>
               geo.stop_lines = <<>> /\ inverse_underflows(geo.tour_idx)
        /\ geo.phase = "written" =>
               /\ Len(geo.stop_markers) = geo.tours * geo.stops
               /\ Len(geo.stop_lines) = geo.tours

\* the marker of a stop of the seventeenth tour was asked for
C30_Witness ==
    /\ geo # None
    /\ geo.tours = MaxTours
    /\ \/ geo.phase = "panicked"
       \/ Len(geo.stop_markers) > (Len(get_color_list) + 1) * geo.stops

====
